---------------------------- MODULE Spec2Model ----------------------------
(***************************************************************************)
(* A model of the HostContext validation and test-generation engine of the *)
(* MCP App Bench shell (validateHostContext, generateTestCases,            *)
(* getValueByPath, runTestCase) and of the two hostContextSchema tables    *)
(* the repository ships.                                                   *)
(*                                                                         *)
(* A JavaScript string is modelled as a sequence of tokens.  A token is a  *)
(* piece of text without a dot; the dot is a token of its own, so a + "."  *)
(* + b is real concatenation, split(".") is a real split, and two paths    *)
(* are equal exactly when their texts are equal.                           *)
(***************************************************************************)
EXTENDS Integers, Sequences, FiniteSets, TLC

VARIABLES hostData, op, out,
          requestId, pendingRequests, currentHostInfo, currentToolData,
          isReady, messageLog

\* the view's variables of the exchange with the host
viewVars == <<requestId, pendingRequests, currentHostInfo, currentToolData,
              isReady, messageLog>>

vars == <<hostData, op, out, viewVars>>

----------------------------------------------------------------------------
(* Bounds of the enumerated inputs.                                        *)

\* deepest nesting of objects below a key the schema does not know
MaxNest == 2
\* number literals used as values are 0 .. MaxNum
MaxNum == 1
\* the scores that are graded are -MaxNum .. MaxPercentage
MaxPercentage == 100
\* a step of the exchange with the host is taken while it leaves at most
\* MaxLog entries in the message log
MaxLog == 3

----------------------------------------------------------------------------
(* JavaScript values.  Every value has the same fields, so that any two    *)
(* values can be compared: t is the kind, b the boolean, n the number, s   *)
(* the string (a token sequence) and kids the own properties [k, v] of an  *)
(* object or an array in enumeration order (an array's keys are its        *)
(* indices).                                                               *)

Val(t, b, n, s, kids) == [t |-> t, b |-> b, n |-> n, s |-> s, kids |-> kids]
Undefined == Val("undefined", FALSE, 0, <<>>, <<>>)
Null == Val("null", FALSE, 0, <<>>, <<>>)
Bool(b) == Val("boolean", b, 0, <<>>, <<>>)
Num(n) == Val("number", FALSE, n, <<>>, <<>>)
Str(s) == Val("string", FALSE, 0, s, <<>>)
Obj(entries) == Val("object", FALSE, 0, <<>>, entries)
Arr(elems) ==
  Val("array", FALSE, 0, <<>>,
      [i \in 1..Len(elems) |-> [k |-> <<ToString(i - 1)>>, v |-> elems[i]]])
\* a function value, as found on Object.prototype
Fn == Val("function", FALSE, 0, <<>>, <<>>)

Dot == "."
K(name) == <<name>>
E(name, value) == [k |-> K(name), v |-> value]
\* an own key whose text contains dots, e.g. "toolInfo.id"
DK(a, b) == <<a, Dot, b>>

\* typeof value
TypeOf(x) ==
  IF x.t \in {"null", "array", "object"} THEN "object" ELSE x.t

IsArray(x) == x.t = "array"

\* ToBoolean(value)
Truthy(x) ==
  CASE x.t \in {"undefined", "null"} -> FALSE
    [] x.t = "boolean" -> x.b
    [] x.t = "number" -> x.n # 0
    [] x.t = "string" -> x.s # <<>>
    [] OTHER -> TRUE

\* property names every plain object inherits from Object.prototype
ObjectPrototypeKeys ==
  { K("constructor"), K("hasOwnProperty"), K("toString"), K("valueOf"),
    K("isPrototypeOf"), K("propertyIsEnumerable"), K("toLocaleString"),
    K("__proto__") }

HasOwn(x, key) == \E i \in 1..Len(x.kids) : x.kids[i].k = key

\* `key in x` for x an object or an array (a primitive x throws)
In(key, x) ==
  HasOwn(x, key) \/ key \in ObjectPrototypeKeys \/
    (x.t = "array" /\ key = K("length"))

\* x[key] for x an object or an array
Get(x, key) ==
  IF HasOwn(x, key)
    THEN x.kids[CHOOSE i \in 1..Len(x.kids) : x.kids[i].k = key].v
    ELSE IF key \in ObjectPrototypeKeys THEN Fn
    ELSE IF x.t = "array" /\ key = K("length") THEN Num(Len(x.kids))
    ELSE Undefined

\* path ? path + "." + key : key
FullPath(path, key) == IF path # <<>> THEN path \o <<Dot>> \o key ELSE key

\* String(value) as it appears when a value is concatenated into a message
ToStringJS(x) ==
  CASE x.t = "string" -> x.s
    [] x.t = "number" -> <<ToString(x.n)>>
    [] x.t = "boolean" -> <<IF x.b THEN "true" ELSE "false">>
    [] x.t = "null" -> <<"null">>
    [] x.t = "undefined" -> <<"undefined">>
    [] x.t = "array" -> <<"[array]">>
    [] OTHER -> <<"[object Object]">>

----------------------------------------------------------------------------
(* Schema nodes.  type is a single name (arr = FALSE) or an array of       *)
(* alternatives (arr = TRUE); enum, children and unionGroups are absent    *)
(* (has = FALSE) or present.                                               *)

T1(name) == [arr |-> FALSE, names |-> <<name>>]
TN(names) == [arr |-> TRUE, names |-> names]
None == [has |-> FALSE, v |-> <<>>]
Some(x) == [has |-> TRUE, v |-> x]

Node(type, optional, enum, children, unionGroups) ==
  [type |-> type, optional |-> optional, enum |-> enum,
   children |-> children, unionGroups |-> unionGroups]

Leaf(type, optional) == Node(type, optional, None, None, None)
LeafEnum(type, enum, optional) == Node(type, optional, Some(enum), None, None)
Parent(optional, children) ==
  Node(T1("object"), optional, None, Some(children), None)
S(name, node) == [k |-> K(name), node |-> node]

styleVariableKeys ==
  <<
    "--color-background-primary", "--color-background-secondary",
    "--color-background-tertiary", "--color-background-inverse",
    "--color-background-ghost", "--color-background-info",
    "--color-background-danger", "--color-background-success",
    "--color-background-warning", "--color-background-disabled",
    "--color-text-primary", "--color-text-secondary",
    "--color-text-tertiary", "--color-text-inverse", "--color-text-info",
    "--color-text-danger", "--color-text-success", "--color-text-warning",
    "--color-text-disabled", "--color-text-ghost", "--color-border-primary",
    "--color-border-secondary", "--color-border-tertiary",
    "--color-border-inverse", "--color-border-ghost", "--color-border-info",
    "--color-border-danger", "--color-border-success",
    "--color-border-warning", "--color-border-disabled",
    "--color-ring-primary", "--color-ring-secondary", "--color-ring-inverse",
    "--color-ring-info", "--color-ring-danger", "--color-ring-success",
    "--color-ring-warning", "--font-sans", "--font-mono",
    "--font-weight-normal", "--font-weight-medium", "--font-weight-semibold",
    "--font-weight-bold", "--font-text-xs-size", "--font-text-sm-size",
    "--font-text-md-size", "--font-text-lg-size", "--font-heading-xs-size",
    "--font-heading-sm-size", "--font-heading-md-size",
    "--font-heading-lg-size", "--font-heading-xl-size",
    "--font-heading-2xl-size", "--font-heading-3xl-size",
    "--font-text-xs-line-height", "--font-text-sm-line-height",
    "--font-text-md-line-height", "--font-text-lg-line-height",
    "--font-heading-xs-line-height", "--font-heading-sm-line-height",
    "--font-heading-md-line-height", "--font-heading-lg-line-height",
    "--font-heading-xl-line-height", "--font-heading-2xl-line-height",
    "--font-heading-3xl-line-height", "--border-radius-xs",
    "--border-radius-sm", "--border-radius-md", "--border-radius-lg",
    "--border-radius-xl", "--border-radius-full", "--border-width-regular",
    "--shadow-hairline", "--shadow-sm", "--shadow-md", "--shadow-lg"
  >>

\* styleVariableKeys.forEach(key => styleVariablesSchema[key] = {...})
styleVariablesSchema ==
  [i \in 1..Len(styleVariableKeys) |->
     S(styleVariableKeys[i], Leaf(T1("string"), TRUE))]

\* the schema of the test-runner build of the shell
hostContextSchema ==
  << S("hostContext", Parent(FALSE, <<
       S("toolInfo", Parent(TRUE, <<
         S("id", Leaf(TN(<<"string", "number">>), TRUE)),
         S("tool", Parent(FALSE, <<
           S("name", Leaf(T1("string"), FALSE)),
           S("description", Leaf(T1("string"), TRUE)),
           S("inputSchema", Leaf(T1("object"), TRUE)) >>)) >>)),
       S("theme", LeafEnum(T1("string"), <<"light", "dark">>, TRUE)),
       S("styles", Parent(TRUE, <<
         S("variables", Parent(TRUE, styleVariablesSchema)),
         S("css", Parent(TRUE, <<
           S("fonts", Leaf(T1("string"), TRUE)) >>)) >>)),
       S("displayMode",
         LeafEnum(T1("string"), <<"inline", "fullscreen", "pip">>, TRUE)),
       S("availableDisplayModes", Leaf(T1("array"), TRUE)),
       S("containerDimensions",
         Node(T1("object"), TRUE, None,
              Some(<< S("height", Leaf(T1("number"), TRUE)),
                      S("maxHeight", Leaf(T1("number"), TRUE)),
                      S("width", Leaf(T1("number"), TRUE)),
                      S("maxWidth", Leaf(T1("number"), TRUE)) >>),
              Some(<< [oneOf |-> <<"height", "maxHeight">>,
                       label |-> "height or maxHeight"],
                      [oneOf |-> <<"width", "maxWidth">>,
                       label |-> "width or maxWidth"] >>))),
       S("locale", Leaf(T1("string"), TRUE)),
       S("timeZone", Leaf(T1("string"), TRUE)),
       S("userAgent", Leaf(T1("string"), TRUE)),
       S("platform",
         LeafEnum(T1("string"), <<"web", "desktop", "mobile">>, TRUE)),
       S("deviceCapabilities", Parent(TRUE, <<
         S("touch", Leaf(T1("boolean"), TRUE)),
         S("hover", Leaf(T1("boolean"), TRUE)) >>)),
       S("safeAreaInsets", Parent(TRUE, <<
         S("top", Leaf(T1("number"), FALSE)),
         S("right", Leaf(T1("number"), FALSE)),
         S("bottom", Leaf(T1("number"), FALSE)),
         S("left", Leaf(T1("number"), FALSE)) >>)) >>)) >>

\* the schema of the static shell (src/static/shell/shell.js): no optional
\* flags, no unionGroups, styles.variables is a leaf
shellHostContextSchema ==
  << S("hostContext", Parent(FALSE, <<
       S("toolInfo", Parent(FALSE, <<
         S("id", Leaf(TN(<<"string", "number">>), FALSE)),
         S("tool", Parent(FALSE, <<
           S("name", Leaf(T1("string"), FALSE)),
           S("description", Leaf(T1("string"), FALSE)),
           S("inputSchema", Leaf(T1("object"), FALSE)) >>)) >>)),
       S("theme", LeafEnum(T1("string"), <<"light", "dark">>, FALSE)),
       S("styles", Parent(FALSE, <<
         S("variables", Leaf(T1("object"), FALSE)),
         S("css", Parent(FALSE, <<
           S("fonts", Leaf(T1("string"), FALSE)) >>)) >>)),
       S("displayMode",
         LeafEnum(T1("string"), <<"inline", "fullscreen", "pip">>, FALSE)),
       S("availableDisplayModes", Leaf(T1("array"), FALSE)),
       S("containerDimensions", Parent(FALSE, <<
         S("height", Leaf(T1("number"), FALSE)),
         S("maxHeight", Leaf(T1("number"), FALSE)),
         S("width", Leaf(T1("number"), FALSE)),
         S("maxWidth", Leaf(T1("number"), FALSE)) >>)),
       S("locale", Leaf(T1("string"), FALSE)),
       S("timeZone", Leaf(T1("string"), FALSE)),
       S("userAgent", Leaf(T1("string"), FALSE)),
       S("platform",
         LeafEnum(T1("string"), <<"web", "desktop", "mobile">>, FALSE)),
       S("deviceCapabilities", Parent(FALSE, <<
         S("touch", Leaf(T1("boolean"), FALSE)),
         S("hover", Leaf(T1("boolean"), FALSE)) >>)),
       S("safeAreaInsets", Parent(FALSE, <<
         S("top", Leaf(T1("number"), FALSE)),
         S("right", Leaf(T1("number"), FALSE)),
         S("bottom", Leaf(T1("number"), FALSE)),
         S("left", Leaf(T1("number"), FALSE)) >>)) >>)) >>

\* `key in schema` for a schema table (an object literal)
SchemaHas(schema, key) == \E i \in 1..Len(schema) : schema[i].k = key
InSchema(key, schema) == SchemaHas(schema, key) \/ key \in ObjectPrototypeKeys
SchemaGet(schema, key) ==
  schema[CHOOSE i \in 1..Len(schema) : schema[i].k = key].node

----------------------------------------------------------------------------
(* Validation: validateHostContext and its closures validate and           *)
(* markAllAsUnexpected.  A result carries threw = TRUE when the call ended *)
(* in a TypeError instead of returning.                                    *)

NoPaths == [threw |-> FALSE, missing |-> <<>>, unexpected |-> <<>>,
            valid |-> <<>>]
Thrown == [threw |-> TRUE, missing |-> <<>>, unexpected |-> <<>>,
           valid |-> <<>>]
PushMissing(p) == [NoPaths EXCEPT !.missing = <<p>>]
PushUnexpected(p) == [NoPaths EXCEPT !.unexpected = <<p>>]
PushValid(p) == [NoPaths EXCEPT !.valid = <<p>>]

\* the pushes of a, then the pushes of b, unless a threw first
Then(a, b) ==
  IF a.threw \/ b.threw THEN Thrown
  ELSE [threw |-> FALSE, missing |-> a.missing \o b.missing,
        unexpected |-> a.unexpected \o b.unexpected,
        valid |-> a.valid \o b.valid]

\* the own enumerable properties of x in for-in order
OwnEntries(x) == x.kids

\* obj.hasOwnProperty(key) for an own key of obj: the method is looked up on
\* obj, so an own property named hasOwnProperty (never callable in JSON data)
\* shadows Object.prototype.hasOwnProperty and the call throws
HasOwnPropertyThrows(obj) == HasOwn(obj, K("hasOwnProperty"))

\* typeof x === "object" && x !== null && !Array.isArray(x)
IsPlainObject(x) == TypeOf(x) = "object" /\ x # Null /\ ~IsArray(x)

\* schemaEntry.children && typeof obj[key] === "object" && !Array.isArray(obj[key])
DescendsInto(entry, x) ==
  entry.children.has /\ TypeOf(x) = "object" /\ ~IsArray(x)

\* a slip: !obj[key], which also drops 0, "" and false
IsMissingFalsy(obj, key) == ~Truthy(Get(obj, key))

\* a slip: only obj[key] === null is tested
IsMissingNullOnly(obj, key) == Get(obj, key) = Null

\* !(key in obj) || obj[key] === undefined || obj[key] === null
IsMissing(obj, key) ==
  ~In(key, obj) \/ Get(obj, key) = Undefined \/ Get(obj, key) = Null

RECURSIVE markAllFrom(_, _, _)
markAllFrom(obj, path, i) ==
  IF i > Len(OwnEntries(obj)) THEN NoPaths
  ELSE IF HasOwnPropertyThrows(obj) THEN Thrown
  ELSE LET e == OwnEntries(obj)[i]
           fullPath == path \o <<Dot>> \o e.k
       IN Then(Then(PushUnexpected(fullPath),
                    IF IsPlainObject(e.v) THEN markAllFrom(e.v, fullPath, 1)
                    ELSE NoPaths),
               markAllFrom(obj, path, i + 1))

markAllAsUnexpected(obj, path) == markAllFrom(obj, path, 1)

RECURSIVE validate(_, _, _)
RECURSIVE validateSchemaKeys(_, _, _, _)
RECURSIVE validateDataKeys(_, _, _, _)

\* a slip: a group of alternative keys none of which is present is
\* reported as missing, under the group's label
GroupsMissing(schemaEntry, value, fullPath) ==
  IF ~schemaEntry.unionGroups.has THEN <<>>
  ELSE LET groups == schemaEntry.unionGroups.v
           unmet == SelectSeq(groups, LAMBDA group :
                      \A j \in 1..Len(group.oneOf) :
                        IsMissing(value, K(group.oneOf[j])))
       IN [j \in 1..Len(unmet) |-> fullPath \o <<Dot, unmet[j].label>>]

RECURSIVE validateSchemaKeysWithGroups(_, _, _, _)
validateSchemaKeysWithGroups(obj, schema, path, i) ==
  IF i > Len(schema) THEN NoPaths
  ELSE LET key == schema[i].k
           fullPath == FullPath(path, key)
           schemaEntry == schema[i].node
       IN Then(IF IsMissing(obj, key) THEN PushMissing(fullPath)
               ELSE Then(PushValid(fullPath),
                         IF DescendsInto(schemaEntry, Get(obj, key))
                           THEN Then(validate(Get(obj, key),
                                              schemaEntry.children.v, fullPath),
                                     [NoPaths EXCEPT !.missing =
                                        GroupsMissing(schemaEntry,
                                                      Get(obj, key), fullPath)])
                           ELSE NoPaths),
               validateSchemaKeysWithGroups(obj, schema, path, i + 1))

\* for (const key in schema) { ... }
validateSchemaKeys(obj, schema, path, i) ==
  IF i > Len(schema) THEN NoPaths
  ELSE LET key == schema[i].k
           fullPath == FullPath(path, key)
           schemaEntry == schema[i].node
       IN Then(IF IsMissing(obj, key) THEN PushMissing(fullPath)
               ELSE Then(PushValid(fullPath),
                         IF DescendsInto(schemaEntry, Get(obj, key))
                           THEN validate(Get(obj, key),
                                         schemaEntry.children.v, fullPath)
                           ELSE NoPaths),
               validateSchemaKeys(obj, schema, path, i + 1))

\* for (const key in obj) { if (!obj.hasOwnProperty(key)) continue; ... }
validateDataKeys(obj, schema, path, i) ==
  IF i > Len(OwnEntries(obj)) THEN NoPaths
  ELSE IF HasOwnPropertyThrows(obj) THEN Thrown
  ELSE LET e == OwnEntries(obj)[i]
           fullPath == FullPath(path, e.k)
       IN Then(IF ~InSchema(e.k, schema)
                 THEN Then(PushUnexpected(fullPath),
                           IF IsPlainObject(e.v)
                             THEN markAllAsUnexpected(e.v, fullPath)
                             ELSE NoPaths)
                 ELSE NoPaths,
               validateDataKeys(obj, schema, path, i + 1))

validate(obj, schema, path) ==
  IF ~Truthy(obj) \/ TypeOf(obj) # "object" THEN NoPaths
  ELSE Then(validateSchemaKeys(obj, schema, path, 1),
            validateDataKeys(obj, schema, path, 1))

\* data.hostContext for a data that is not undefined or null
HostContextOf(data) ==
  IF data.t \in {"object", "array"} THEN Get(data, K("hostContext"))
  ELSE Undefined

validateWith(data, schema) ==
  IF Truthy(data) /\ Truthy(HostContextOf(data))
    THEN validate(Obj(<<E("hostContext", HostContextOf(data))>>), schema, <<>>)
    ELSE NoPaths

\* validateHostContext of the test-runner build
validateHostContext(data) == validateWith(data, hostContextSchema)

\* validateHostContext of src/static/shell/shell.js
shellValidateHostContext(data) == validateWith(data, shellHostContextSchema)

----------------------------------------------------------------------------
(* Test runner: generateTestCases, getValueByPath, runTestCase.            *)

\* a slip: the parent's flag is not inherited
isOptionalOwnFlag(parentOptional, entry) == entry.optional

\* a slip: the node's own flag is not looked at
isOptionalFromParent(parentOptional, entry) == parentOptional

\* const isOptional = parentOptional || !!entry.optional
isOptional(parentOptional, entry) == parentOptional \/ entry.optional

\* the descriptor pushed for a leaf
TestCase(fullPath, entry, optional, prefix) ==
  [path |-> fullPath,
   expectedType |-> entry.type,
   enumValues |-> entry.enum,
   optional |-> optional,
   parentPath |-> IF prefix # <<>> THEN Some(prefix) ELSE None]

\* a slip: a node with children gets a descriptor of its own as well
RECURSIVE generateFromEveryNode(_, _, _, _)
generateFromEveryNode(schema, prefix, parentOptional, i) ==
  IF i > Len(schema) THEN <<>>
  ELSE LET fullPath == FullPath(prefix, schema[i].k)
           entry == schema[i].node
           opt == isOptional(parentOptional, entry)
       IN <<TestCase(fullPath, entry, opt, prefix)>>
          \o (IF entry.children.has
                THEN generateFromEveryNode(entry.children.v, fullPath, opt, 1)
                ELSE <<>>)
          \o generateFromEveryNode(schema, prefix, parentOptional, i + 1)

RECURSIVE generateFrom(_, _, _, _)
generateFrom(schema, prefix, parentOptional, i) ==
  IF i > Len(schema) THEN <<>>
  ELSE LET fullPath == FullPath(prefix, schema[i].k)
           entry == schema[i].node
           opt == isOptional(parentOptional, entry)
       IN (IF entry.children.has
             THEN generateFrom(entry.children.v, fullPath, opt, 1)
             ELSE <<TestCase(fullPath, entry, opt, prefix)>>)
          \o generateFrom(schema, prefix, parentOptional, i + 1)

generateTestCases(schema, prefix, parentOptional) ==
  generateFrom(schema, prefix, parentOptional, 1)

\* path.split(".")
RECURSIVE SplitFrom(_, _, _)
SplitFrom(path, i, part) ==
  IF i > Len(path) THEN <<part>>
  ELSE IF path[i] = Dot THEN <<part>> \o SplitFrom(path, i + 1, <<>>)
  ELSE SplitFrom(path, i + 1, Append(part, path[i]))

Split(path) == SplitFrom(path, 1, <<>>)

NotFound == [threw |-> FALSE, found |-> FALSE, value |-> Undefined]
TypeError == [threw |-> TRUE, found |-> FALSE, value |-> Undefined]

\* `parts[i] in current` throws a TypeError when current is a primitive
InThrows(current) == current.t \in {"string", "number", "boolean"}

RECURSIVE walkParts(_, _, _)
walkParts(current, parts, i) ==
  IF i > Len(parts) THEN [threw |-> FALSE, found |-> TRUE, value |-> current]
  ELSE IF current = Null \/ current = Undefined THEN NotFound
  ELSE IF InThrows(current) THEN TypeError
  ELSE IF ~In(parts[i], current) THEN NotFound
  ELSE walkParts(Get(current, parts[i]), parts, i + 1)

getValueByPath(obj, path) == walkParts(obj, Split(path), 1)

\* value === null ? "null" : Array.isArray(value) ? "array" : typeof value
ActualType(value) ==
  IF value = Null THEN "null"
  ELSE IF IsArray(value) THEN "array" ELSE TypeOf(value)

\* Array.isArray(expectedType) ? expectedType : [expectedType]
ExpectedTypes(testCase) == testCase.expectedType.names

\* a slip: only the first alternative of a union type is accepted
typeMatchesFirst(testCase, value) ==
  ExpectedTypes(testCase)[1] = ActualType(value)

\* expectedTypes.indexOf(actualType) !== -1
typeMatches(testCase, value) ==
  \E i \in 1..Len(ExpectedTypes(testCase)) :
    ExpectedTypes(testCase)[i] = ActualType(value)

\* testCase.enumValues && testCase.enumValues.indexOf(value) === -1
enumMismatch(testCase, value) ==
  testCase.enumValues.has /\
    ~\E i \in 1..Len(testCase.enumValues.v) :
        value = Str(<<testCase.enumValues.v[i]>>)

\* items.join(sep)
RECURSIVE Join(_, _)
Join(items, sep) ==
  IF items = <<>> THEN <<>>
  ELSE IF Len(items) = 1 THEN <<items[1]>>
  ELSE <<items[1], sep>> \o Join(Tail(items), sep)

Result(status, message, actualValue, actualType) ==
  [threw |-> FALSE, status |-> status, message |-> message,
   actualValue |-> actualValue, actualType |-> actualType]

\* the outcome of a runTestCase call that ended in a TypeError
RunThrew == [threw |-> TRUE, status |-> "", message |-> <<>>,
             actualValue |-> Undefined, actualType |-> ""]

\* a slip: the enum check runs before the type check
statusOfEnumFirst(testCase, value) ==
  IF enumMismatch(testCase, value) THEN "warn"
  ELSE IF ~typeMatches(testCase, value) THEN "invalid"
  ELSE "provided"

\* a slip: a value outside the enum is reported as a hard failure
statusOfEnumInvalid(testCase, value) ==
  IF ~typeMatches(testCase, value) \/ enumMismatch(testCase, value)
    THEN "invalid"
  ELSE "provided"

\* the branch runTestCase takes after a successful lookup
statusOf(testCase, value) ==
  IF ~typeMatches(testCase, value) THEN "invalid"
  ELSE IF enumMismatch(testCase, value) THEN "warn"
  ELSE "provided"

messageOf(status, testCase, value) ==
  CASE status = "invalid" ->
         <<"Expected ">> \o Join(ExpectedTypes(testCase), " | ")
           \o <<", got ", ActualType(value)>>
    [] status = "warn" ->
         <<"Value \"">> \o ToStringJS(value) \o <<"\" not in spec: [">>
           \o Join(testCase.enumValues.v, ", ") \o <<"]">>
    [] OTHER -> <<"OK">>

runTestCase(testCase, data) ==
  LET result == getValueByPath(data, testCase.path)
  IN IF result.threw THEN RunThrew
     ELSE IF ~result.found
       THEN Result("missing", <<"Not provided">>, Undefined, "undefined")
     ELSE LET status == statusOf(testCase, result.value)
          IN Result(status, messageOf(status, testCase, result.value),
                    result.value, ActualType(result.value))

----------------------------------------------------------------------------
(* Classifying a displayed path against a validation result.               *)

\* list.indexOf(path) !== -1
Includes(list, path) == \E i \in 1..Len(list) : list[i] = path

\* path.indexOf(head) === 0
StartsWith(path, head) ==
  Len(head) <= Len(path) /\ SubSeq(path, 1, Len(head)) = head

\* the loop over validationResult.unexpected
IsChildOfUnexpected(path, validationResult) ==
  \E i \in 1..Len(validationResult.unexpected) :
    StartsWith(path, validationResult.unexpected[i] \o <<Dot>>)

\* a slip: the descendants of an unexpected path are not looked for
getPathValidationStatusExactOnly(path, validationResult) ==
  IF Includes(validationResult.missing, path) THEN "missing"
  ELSE IF Includes(validationResult.unexpected, path) THEN "unexpected"
  ELSE "valid"

\* a slip: the unexpected list is consulted before the missing list
getPathValidationStatusUnexpectedFirst(path, validationResult) ==
  IF Includes(validationResult.unexpected, path) THEN "unexpected"
  ELSE IF Includes(validationResult.missing, path) THEN "missing"
  ELSE IF IsChildOfUnexpected(path, validationResult) THEN "unexpected"
  ELSE "valid"

getPathValidationStatus(path, validationResult) ==
  IF Includes(validationResult.missing, path) THEN "missing"
  ELSE IF Includes(validationResult.unexpected, path) THEN "unexpected"
  ELSE IF IsChildOfUnexpected(path, validationResult) THEN "unexpected"
  ELSE "valid"

----------------------------------------------------------------------------
(* The finder of properties the schema does not know                       *)
(* (findUnexpectedProperties).  Its result is the returned array, or threw *)
(* when the call ended in a TypeError.                                     *)

NoneFound == [threw |-> FALSE, unexpected |-> <<>>]
FindThrew == [threw |-> TRUE, unexpected |-> <<>>]

\* the schema {} handed down below a key the schema does not know
EmptySchema == <<>>

\* hostData[key] === null ? "null" : Array.isArray(hostData[key]) ? "array"
\*   : typeof hostData[key]
UnexpectedType(value) ==
  IF value = Null THEN "null"
  ELSE IF IsArray(value) THEN "array" ELSE TypeOf(value)

\* unexpected.push({path, value, type})
Unexpected(fullPath, value) ==
  [threw |-> FALSE,
   unexpected |-> <<[path |-> fullPath, value |-> value,
                     type |-> UnexpectedType(value)]>>]

\* unexpected.push.apply(unexpected, nested), unless a call threw first
ThenFound(a, b) ==
  IF a.threw \/ b.threw THEN FindThrew
  ELSE [threw |-> FALSE, unexpected |-> a.unexpected \o b.unexpected]

RECURSIVE findUnexpectedProperties(_, _, _)
RECURSIVE findFrom(_, _, _, _)

\* the nested call below a key the schema does not know
NestedOf(value, fullPath) ==
  IF IsPlainObject(value)
    THEN findUnexpectedProperties(value, EmptySchema, fullPath)
  ELSE NoneFound

\* a slip: an object held by a schema key without children is searched too
RECURSIVE findFromIntoLeaves(_, _, _, _)
findFromIntoLeaves(data, schema, prefix, i) ==
  IF i > Len(OwnEntries(data)) THEN NoneFound
  ELSE IF HasOwnPropertyThrows(data) THEN FindThrew
  ELSE LET key == OwnEntries(data)[i].k
           value == OwnEntries(data)[i].v
           fullPath == FullPath(prefix, key)
           here ==
             IF ~InSchema(key, schema)
               THEN ThenFound(Unexpected(fullPath, value),
                              NestedOf(value, fullPath))
             ELSE IF SchemaHas(schema, key)
                     /\ DescendsInto(SchemaGet(schema, key), value)
               THEN findUnexpectedProperties(
                      value, SchemaGet(schema, key).children.v, fullPath)
             ELSE NestedOf(value, fullPath)
       IN ThenFound(here, findFromIntoLeaves(data, schema, prefix, i + 1))

\* the iterations of the for-in loop from the i-th own key on
findFrom(data, schema, prefix, i) ==
  IF i > Len(OwnEntries(data)) THEN NoneFound
  ELSE IF HasOwnPropertyThrows(data) THEN FindThrew
  ELSE LET key == OwnEntries(data)[i].k
           value == OwnEntries(data)[i].v
           fullPath == FullPath(prefix, key)
           here ==
             IF ~InSchema(key, schema)
               THEN ThenFound(Unexpected(fullPath, value),
                              NestedOf(value, fullPath))
             ELSE IF SchemaHas(schema, key)
                     /\ DescendsInto(SchemaGet(schema, key), value)
               THEN findUnexpectedProperties(
                      value, SchemaGet(schema, key).children.v, fullPath)
             ELSE NoneFound
       IN ThenFound(here, findFrom(data, schema, prefix, i + 1))

\* a slip: an array is searched like an object
findUnexpectedPropertiesInArrays(data, schema, prefix) ==
  IF ~Truthy(data) \/ TypeOf(data) # "object"
    THEN NoneFound
  ELSE findFrom(data, schema, prefix, 1)

findUnexpectedProperties(data, schema, prefix) ==
  IF ~Truthy(data) \/ TypeOf(data) # "object" \/ IsArray(data)
    THEN NoneFound
  ELSE findFrom(data, schema, prefix, 1)

----------------------------------------------------------------------------
(* The letter grade of a score (getGrade).                                 *)

Grade(letter, color) == [letter |-> letter, color |-> color]

\* a slip: the thresholds themselves fall into the lower bucket
getGradeAbove(percentage) ==
  IF percentage > 90 THEN Grade("A", "pass")
  ELSE IF percentage > 80 THEN Grade("B", "pass")
  ELSE IF percentage > 70 THEN Grade("C", "warn")
  ELSE IF percentage > 60 THEN Grade("D", "warn")
  ELSE Grade("F", "fail")

getGrade(percentage) ==
  IF percentage >= 90 THEN Grade("A", "pass")
  ELSE IF percentage >= 80 THEN Grade("B", "pass")
  ELSE IF percentage >= 70 THEN Grade("C", "warn")
  ELSE IF percentage >= 60 THEN Grade("D", "warn")
  ELSE Grade("F", "fail")

----------------------------------------------------------------------------
(* The view's side of the JSON-RPC exchange with the host: sendRequest,    *)
(* sendNotification, logMessage, handleMessage and initialize.  A message  *)
(* is a JavaScript value like any other.  The operators work on a record   *)
(* of the view's state; besides the program's variables it has posted, the *)
(* messages handed to window.parent.postMessage, and settled, the promises *)
(* resolved or rejected, and completed, the calls of async functions that  *)
(* ran to their end, all since the running step began.  What is only       *)
(* drawn on the page (body classes, the subtitle, console output) is left  *)
(* out, and so is the wall-clock time of a log entry; an exception thrown  *)
(* while drawing is kept, for it ends the handler.                         *)

MAX_MESSAGES == 100
MCP_APPS_SPEC_VERSION == "2026-01-26"

Text(s) == Str(<<s>>)

\* obj[key] = value
Put(obj, key, value) ==
  IF HasOwn(obj, key)
    THEN [obj EXCEPT !.kids =
            [i \in 1..Len(obj.kids) |->
               IF obj.kids[i].k = key THEN [k |-> key, v |-> value]
               ELSE obj.kids[i]]]
  ELSE [obj EXCEPT !.kids = Append(obj.kids, [k |-> key, v |-> value])]

\* Object.assign(target, source) for a source that is no string
RECURSIVE AssignFrom(_, _, _)
AssignFrom(target, source, i) ==
  IF i > Len(source.kids) THEN target
  ELSE AssignFrom(Put(target, source.kids[i].k, source.kids[i].v),
                  source, i + 1)

ObjectAssign(target, source) ==
  IF target.t \in {"object", "array"} THEN AssignFrom(target, source, 1)
  ELSE target

\* let currentToolData = { toolInput: null, ... }
InitialToolData ==
  Obj(<<E("toolInput", Null), E("toolInputPartial", Null),
        E("toolResult", Null), E("toolCancelled", Null)>>)

\* new Map()
EmptyMap == [id \in {} |-> Null]

\* the state after the script has run
InitialView ==
  [requestId |-> 1,
   pendingRequests |-> EmptyMap,
   currentHostInfo |-> Null,
   currentToolData |-> InitialToolData,
   isReady |-> FALSE,
   messageLog |-> <<>>,
   posted |-> <<>>,
   settled |-> <<>>,
   completed |-> <<>>]

\* pendingRequests.has(id): keys are compared by SameValueZero, and the
\* keys set are numbers
MapHas(map, id) == id.t = "number" /\ id.n \in DOMAIN map

\* pendingRequests.set(id, entry)
MapSet(map, id, entry) ==
  [i \in DOMAIN map \cup {id} |-> IF i = id THEN entry ELSE map[i]]

\* pendingRequests.delete(id)
MapDelete(map, id) == [i \in DOMAIN map \ {id} |-> map[i]]

\* a slip: a full log drops the entry just pushed
logMessageDropsNewest(v, direction, method, content) ==
  LET pushed == Append(v.messageLog,
                       [direction |-> direction, method |-> method,
                        content |-> content, live |-> FALSE])
  IN [v EXCEPT !.messageLog =
        IF Len(pushed) > MAX_MESSAGES THEN SubSeq(pushed, 1, MAX_MESSAGES)
        ELSE pushed]

\* live marks the entry whose content is the object the view keeps using
\* as the result of initialize
logMessage(v, direction, method, content) ==
  LET pushed == Append(v.messageLog,
                       [direction |-> direction, method |-> method,
                        content |-> content, live |-> FALSE])
  IN [v EXCEPT !.messageLog =
        IF Len(pushed) > MAX_MESSAGES THEN Tail(pushed) ELSE pushed]

\* window.parent.postMessage(message, "*")
postMessage(v, message) == [v EXCEPT !.posted = Append(@, message)]

\* awaiter names the code that waits for the returned promise
sendRequest(v, method, params, awaiter) ==
  LET id == v.requestId
      set == [v EXCEPT !.requestId = @ + 1,
                       !.pendingRequests =
                         MapSet(@, id, [method |-> method, params |-> params,
                                        awaiter |-> awaiter])]
  IN postMessage(
       logMessage(set, "sent", Str(<<method, " (request)">>), params),
       Obj(<<E("jsonrpc", Text("2.0")), E("id", Num(id)),
             E("method", Text(method)), E("params", params)>>))

sendNotification(v, method, params) ==
  postMessage(
    logMessage(v, "sent", Str(<<method, " (notification)">>), params),
    Obj(<<E("jsonrpc", Text("2.0")), E("method", Text(method)),
          E("params", params)>>))

\* sendSizeChanged() with document.body.scrollHeight = height; it does not
\* log
sendSizeChanged(v, height) ==
  postMessage(v,
    Obj(<<E("jsonrpc", Text("2.0")),
          E("method", Text("ui/notifications/size-changed")),
          E("params", Obj(<<E("height", height)>>))>>))

\* setReady(), which the listener for mcp-tool-result calls
setReady(v, height) == sendSizeChanged([v EXCEPT !.isReady = TRUE], height)

\* initParams for initialize() called without options
InitParams ==
  Obj(<<E("protocolVersion", Text(MCP_APPS_SPEC_VERSION)),
        E("capabilities", Obj(<<>>)),
        E("clientInfo", Obj(<<E("name", Text("MCP App")),
                              E("version", Text("1.0.0"))>>)),
        E("appCapabilities",
          Obj(<<E("availableDisplayModes",
                  Arr(<<Text("inline"), Text("fullscreen"),
                        Text("pip")>>))>>)),
        E("appInfo", Obj(<<E("name", Text("MCP App")),
                           E("version", Text("1.0.0"))>>))>>)

\* initialize() up to its await
initialize(v) == sendRequest(v, "ui/initialize", InitParams, "initialize")

\* navigateToInspector(toolName) up to the promise it chains on
navigateToInspector(v, toolName) ==
  sendRequest(v, "ui/message",
    Obj(<<E("role", Text("user")),
          E("content",
            Arr(<<Obj(<<E("type", Text("text")),
                        E("text", Str(<<"Run the ", toolName,
                                        " tool.">>))>>)>>))>>),
    "navigateToInspector")

\* setDisplayMode(mode) ends in an InvalidCharacterError: classList.add
\* refuses the token "display-mode-" + mode when it holds whitespace, as
\* the text of an object, "[object Object]", does
setDisplayModeThrows(mode) ==
  /\ Truthy(mode)
  /\ \/ mode.t = "object"
     \/ \E i \in 1..Len(ToStringJS(mode)) : ToStringJS(mode)[i] = " "

\* the result object after the two compatibility assignments
WithHostNames(result) ==
  LET named ==
        IF Truthy(Get(result, K("appInfo")))
             /\ ~Truthy(Get(result, K("hostInfo")))
          THEN Put(result, K("hostInfo"), Get(result, K("appInfo")))
        ELSE result
  IN IF Truthy(Get(named, K("appCapabilities")))
          /\ ~Truthy(Get(named, K("hostCapabilities")))
       THEN Put(named, K("hostCapabilities"), Get(named, K("appCapabilities")))
     ELSE named

\* the entry just logged holds the result object itself
MarkLive(log, result) ==
  [i \in 1..Len(log) |->
     [log[i] EXCEPT !.live = (i = Len(log)), !.content =
        IF i = Len(log) THEN result ELSE @]]

\* the try block of initialize() from its await on, the promise being
\* resolved with result; reading a property of undefined or null throws
\* into the catch block, and so does setDisplayMode when it throws
initializeTried(v, result) ==
  IF result.t \in {"undefined", "null"} THEN v
  ELSE IF Truthy(Get(result, K("hostContext")))
            /\ setDisplayModeThrows(Get(Get(result, K("hostContext")),
                                        K("displayMode")))
    THEN v
  ELSE
    LET named == IF result.t \in {"object", "array"}
                   THEN WithHostNames(result) ELSE result
        hostContext == Get(named, K("hostContext"))
        stored ==
          [v EXCEPT
             !.currentHostInfo =
               Obj(<<E("protocolVersion", Get(named, K("protocolVersion"))),
                     E("hostInfo", Get(named, K("hostInfo"))),
                     E("hostCapabilities", Get(named, K("hostCapabilities"))),
                     E("hostContext", IF Truthy(hostContext) THEN hostContext
                                      ELSE Obj(<<>>))>>),
             !.messageLog =
               IF result.t \in {"object", "array"} THEN MarkLive(@, named)
               ELSE @]
    IN sendNotification(stored, "ui/notifications/initialized", Undefined)

\* the promise initialize() returned is fulfilled: the catch block takes
\* every rejection and every error of the try block, and throws nothing
Fulfilled(v, fn) ==
  [v EXCEPT !.completed = Append(@, [fn |-> fn, outcome |-> "fulfilled"])]

\* a slip: the rest of the try block runs on a rejection as well
initializeResumedAnyway(v, outcome, value) ==
  Fulfilled(initializeTried(v, value), "initialize")

\* initialize() from its await on
initializeResumed(v, outcome, value) ==
  Fulfilled(IF outcome = "resolve" THEN initializeTried(v, value) ELSE v,
            "initialize")

\* what runs when the promise of a request is settled
Resumed(v, awaiter, outcome, value) ==
  IF awaiter = "initialize" THEN initializeResumed(v, outcome, value)
  ELSE v

\* pending.resolve(value) or pending.reject(value), and the code waiting
Settle(v, id, pending, outcome, value) ==
  Resumed([v EXCEPT !.settled =
             Append(@, [id |-> id, method |-> pending.method,
                        outcome |-> outcome, value |-> value])],
          pending.awaiter, outcome, value)

\* Object.assign(currentHostInfo.hostContext, params); a logged initialize
\* result that holds the same hostContext object changes with it
hostContextChanged(v, params) ==
  IF Truthy(v.currentHostInfo)
       /\ Truthy(Get(v.currentHostInfo, K("hostContext")))
    THEN LET merged ==
               ObjectAssign(Get(v.currentHostInfo, K("hostContext")), params)
         IN [v EXCEPT
               !.currentHostInfo = Put(@, K("hostContext"), merged),
               !.messageLog =
                 [i \in 1..Len(@) |->
                    IF @[i].live
                         /\ Truthy(Get(@[i].content, K("hostContext")))
                      THEN [@[i] EXCEPT !.content =
                              Put(@, K("hostContext"), merged)]
                    ELSE @[i]]]
  ELSE v

\* the part of handleMessage for a response to a request of the view
handleResponse(v, data) ==
  LET id == Get(data, K("id")).n
      pending == v.pendingRequests[id]
      deleted == [v EXCEPT !.pendingRequests = MapDelete(@, id)]
  IN IF Truthy(Get(data, K("error")))
       THEN Settle(logMessage(deleted, "received",
                              Str(<<pending.method, " (error)">>),
                              Get(data, K("error"))),
                   id, pending, "reject", Get(data, K("error")))
     ELSE Settle(logMessage(deleted, "received",
                            Str(<<pending.method, " (response)">>),
                            Get(data, K("result"))),
                 id, pending, "resolve", Get(data, K("result")))

\* the part of handleMessage for what the host sends of its own accord
handleHostMessage(v, data, height) ==
  LET method == Get(data, K("method"))
      params == Get(data, K("params"))
      logged == IF Truthy(method)
                  THEN logMessage(v, "received", method, params)
                ELSE v
  IN CASE method = Text("ui/notifications/host-context-changed") ->
            IF Truthy(params)
                 /\ setDisplayModeThrows(Get(params, K("displayMode")))
              THEN logged
            ELSE hostContextChanged(logged, params)
       [] method = Text("ui/notifications/tool-input") ->
            [logged EXCEPT !.currentToolData = Put(@, K("toolInput"), params)]
       [] method = Text("ui/notifications/tool-result") ->
            setReady([logged EXCEPT !.currentToolData =
                        Put(@, K("toolResult"), params)], height)
       [] method = Text("ui/notifications/tool-input-partial") ->
            [logged EXCEPT !.currentToolData =
               Put(@, K("toolInputPartial"), params)]
       [] method = Text("ui/notifications/tool-cancelled") ->
            [logged EXCEPT !.currentToolData =
               Put(@, K("toolCancelled"), params)]
       [] method = Text("ui/resource-teardown") ->
            IF In(K("id"), data)
              THEN postMessage(logged,
                     Obj(<<E("jsonrpc", Text("2.0")),
                           E("id", Get(data, K("id"))),
                           E("result", Obj(<<>>))>>))
            ELSE logged
       [] OTHER -> logged

\* a slip: the settled request stays in pendingRequests
handleMessageKeepPending(v, data, height) ==
  IF ~Truthy(data) \/ TypeOf(data) # "object"
       \/ Get(data, K("jsonrpc")) # Text("2.0")
    THEN v
  ELSE IF In(K("id"), data) /\ MapHas(v.pendingRequests, Get(data, K("id")))
    THEN [handleResponse(v, data) EXCEPT
            !.pendingRequests = v.pendingRequests]
  ELSE handleHostMessage(v, data, height)

\* handleMessage(event) with event.data = data
handleMessage(v, data, height) ==
  IF ~Truthy(data) \/ TypeOf(data) # "object"
       \/ Get(data, K("jsonrpc")) # Text("2.0")
    THEN v
  ELSE IF In(K("id"), data) /\ MapHas(v.pendingRequests, Get(data, K("id")))
    THEN handleResponse(v, data)
  ELSE handleHostMessage(v, data, height)

----------------------------------------------------------------------------
(* The inputs: JSON-compatible host data (and the non-JSON argument        *)
(* undefined), enumerated in families.                                     *)

\* zero or one entry for a key
Opt(key, values) == {<<>>} \cup {<<[k |-> key, v |-> x]>> : x \in values}

Numbers == {Num(n) : n \in 0..MaxNum}

\* a chain of d nested objects below an unknown key, ending in a number
RECURSIVE Chain(_)
Chain(d) == IF d = 0 THEN Num(1) ELSE Obj(<<E("bar", Chain(d - 1))>>)

UnknownValues ==
  {Chain(d) : d \in 0..MaxNest} \cup
  { Null, Obj(<<>>), Arr(<<Obj(<<E("zzz", Num(1))>>)>>),
    Obj(<<E("bar", Num(1)), E("baz", Obj(<<E("qux", Str(<<"q">>))>>))>>) }

ThemeValues ==
  { Null, Str(<<"light">>), Str(<<"solarized">>), Num(MaxNum), Arr(<<>>) }

DisplayModeValues == { Num(3), Str(<<"inline">>) }

ToolInfoValues ==
  { Null, Str(<<"abc">>), Num(MaxNum), Bool(TRUE), Arr(<<>>), Obj(<<>>),
    Obj(<<E("id", Num(1))>>),
    Obj(<<E("id", Bool(FALSE))>>),
    Obj(<<E("id", Str(<<"t1">>)),
          E("tool", Obj(<<E("name", Str(<<"n">>))>>))>>),
    Obj(<<E("tool", Num(1))>>),
    Obj(<<E("tool", Null)>>),
    Obj(<<E("tool", Obj(<<E("name", Null),
                          E("description", Str(<<"d">>))>>))>>),
    Obj(<<E("tool", Obj(<<E("inputSchema",
                            Obj(<<E("anything", Num(1))>>))>>))>>),
    Obj(<<E("zzz", Num(1))>>) }

\* hostContext objects with known keys holding values of every kind
KnownKeyContexts ==
  { Obj(th \o dm \o ti) :
      th \in Opt(K("theme"), ThemeValues),
      dm \in Opt(K("displayMode"), DisplayModeValues),
      ti \in Opt(K("toolInfo"), ToolInfoValues) }

\* hostContext objects with unknown keys, and with keys whose text has dots
UnknownKeyContexts ==
  { Obj(ti \o tid \o foo \o foobar) :
      ti \in Opt(K("toolInfo"), {Obj(<<E("id", Num(1))>>)}),
      tid \in Opt(DK("toolInfo", "id"), {Num(1)}),
      foo \in Opt(K("foo"), UnknownValues),
      foobar \in Opt(DK("foo", "bar"), {Num(1)}) }

\* hostContext objects with keys named like Object.prototype members
PrototypeKeyContexts ==
  { Obj(<<E("hasOwnProperty", Num(1))>>),
    Obj(<<E("constructor", Num(1))>>),
    Obj(<<E("constructor", Obj(<<E("bar", Num(1))>>))>>),
    Obj(<<E("theme", Str(<<"light">>)), E("toString", Str(<<"x">>))>>),
    Obj(<<E("toolInfo", Obj(<<E("hasOwnProperty", Bool(TRUE))>>))>>),
    Obj(<<E("foo", Obj(<<E("hasOwnProperty", Null)>>))>>),
    Obj(<<E("foo", Obj(<<E("toString", Num(1)), E("bar", Num(1))>>))>>),
    Obj(<<E("theme", Null), E("hasOwnProperty", Num(1))>>),
    Obj(<<E("toolInfo", Str(<<"abc">>)), E("hasOwnProperty", Num(1))>>) }

\* hostContext objects where a key with dots meets a path of the schema
DottedSchemaPathContexts ==
  { Obj(<<E("toolInfo", Obj(<<>>)),
          [k |-> DK("toolInfo", "id"), v |-> Num(1)]>>),
    Obj(<<E("toolInfo", Obj(<<E("tool", Obj(<<>>))>>)),
          [k |-> DK("toolInfo", "tool"), v |-> Num(1)]>>),
    Obj(<<E("toolInfo", Obj(<<E("tool", Obj(<<E("name", Null)>>))>>)),
          [k |-> DK("toolInfo", "tool"), v |-> Obj(<<E("name", Num(1))>>)]>>) }

\* hostContext objects whose containerDimensions lack a height, a width,
\* or both
DimensionContexts ==
  { Obj(<<E("containerDimensions", Obj(h \o w))>>) :
      h \in Opt(K("height"), {Num(MaxNum)}) \cup Opt(K("maxHeight"), {Null}),
      w \in Opt(K("maxWidth"), {Num(0)}) }

\* hostContext values that are no object
PlainContexts ==
  Numbers \cup
  { Null, Bool(TRUE), Bool(FALSE), Str(<<>>), Str(<<"abc">>), Arr(<<>>),
    Obj(<<>>) }

\* a value of the first type a schema node names
SampleValue(node) ==
  LET type == node.type.names[1]
  IN CASE type = "string" ->
            IF node.enum.has THEN Str(<<node.enum.v[1]>>) ELSE Str(<<"s">>)
       [] type = "number" -> Num(0)
       [] type = "boolean" -> Bool(FALSE)
       [] type = "array" -> Arr(<<>>)
       [] OTHER -> Obj(<<>>)

\* the object that has every key of the schema, in schema order
RECURSIVE FullObject(_)
FullObject(schema) ==
  Obj([i \in 1..Len(schema) |->
         [k |-> schema[i].k,
          v |-> IF schema[i].node.children.has
                  THEN FullObject(schema[i].node.children.v)
                  ELSE SampleValue(schema[i].node)]])

FullData == FullObject(hostContextSchema)

\* every path of the schema, interior nodes included, as lists of keys
RECURSIVE SchemaKeyPaths(_, _, _)
SchemaKeyPaths(schema, prefix, i) ==
  IF i > Len(schema) THEN <<>>
  ELSE <<Append(prefix, schema[i].k)>>
       \o (IF schema[i].node.children.has
             THEN SchemaKeyPaths(schema[i].node.children.v,
                                 Append(prefix, schema[i].k), 1)
             ELSE <<>>)
       \o SchemaKeyPaths(schema, prefix, i + 1)

MutationKinds == {"delete", "null", "retype", "extend"}

Mutated(x, kind) ==
  CASE kind = "null" -> Null
    [] kind = "retype" ->
         IF x.t = "number" THEN Str(<<"abc">>) ELSE Num(MaxNum)
    [] kind = "extend" /\ x.t = "object" ->
         Obj(x.kids \o <<E("zzz", Num(1))>>)
    [] OTHER -> x

\* x with the value at keys[i..] deleted, nulled, retyped or extended
RECURSIVE MutateAt(_, _, _, _)
MutateAt(x, keys, i, kind) ==
  LET at == CHOOSE j \in 1..Len(x.kids) : x.kids[j].k = keys[i]
  IN IF i = Len(keys) /\ kind = "delete"
       THEN Obj(SubSeq(x.kids, 1, at - 1) \o SubSeq(x.kids, at + 1, Len(x.kids)))
     ELSE Obj([x.kids EXCEPT ![at].v =
                 IF i = Len(keys) THEN Mutated(@, kind)
                 ELSE MutateAt(@, keys, i + 1, kind)])

AllKeyPaths == SchemaKeyPaths(hostContextSchema, <<>>, 1)

\* the complete data and every data one mutation away from it
NearFullData ==
  {FullData} \cup
  { MutateAt(FullData, AllKeyPaths[p], 1, kind) :
      p \in 1..Len(AllKeyPaths), kind \in MutationKinds }

Wrap(hostContext) == Obj(<<E("hostContext", hostContext)>>)

\* host data with keys of its own beside hostContext
RootKeyData ==
  { Obj(<<E("foo", Obj(<<E("bar", Num(1))>>))>>),
    Obj(<<E("hostContext", Obj(<<E("theme", Str(<<"light">>))>>)),
          E("foo", Chain(MaxNest))>>),
    Obj(<<E("hostContext", Obj(<<E("zzz", Arr(<<Num(1)>>))>>)),
          E("hostInfo", Null)>>) }

HostDataSet ==
  { Undefined, Null, Num(0), Num(MaxNum), Str(<<>>), Str(<<"abc">>),
    Bool(TRUE), Arr(<<>>), Arr(<<Num(MaxNum)>>), Obj(<<>>),
    Obj(<<E("other", Num(1))>>) }
  \cup {Wrap(hc) : hc \in PlainContexts}
  \cup {Wrap(hc) : hc \in KnownKeyContexts}
  \cup {Wrap(hc) : hc \in UnknownKeyContexts}
  \cup {Wrap(hc) : hc \in PrototypeKeyContexts}
  \cup {Wrap(hc) : hc \in DottedSchemaPathContexts}
  \cup {Wrap(hc) : hc \in DimensionContexts}
  \cup RootKeyData
  \cup NearFullData

----------------------------------------------------------------------------
(* The harness: one call at a time on the data received from the host.     *)

Idle == [none |-> TRUE]

\* the suite the test runner works through
hostContextTests == generateTestCases(hostContextSchema, <<>>, FALSE)

\* the two schema tables, and the table of hostContext's own keys
Schemas == {"runner", "shell", "children"}
SchemaNamed(name) ==
  CASE name = "shell" -> shellHostContextSchema
    [] name = "children" -> hostContextSchema[1].node.children.v
    [] OTHER -> hostContextSchema

\* the view as the script leaves it
ViewStarts ==
  /\ requestId = InitialView.requestId
  /\ pendingRequests = InitialView.pendingRequests
  /\ currentHostInfo = InitialView.currentHostInfo
  /\ currentToolData = InitialView.currentToolData
  /\ isReady = InitialView.isReady
  /\ messageLog = InitialView.messageLog

Init ==
  /\ hostData \in HostDataSet
  /\ op = "idle"
  /\ out = Idle
  /\ ViewStarts

Validate ==
  /\ op = "idle"
  /\ op' = "validateHostContext"
  /\ out' = validateHostContext(hostData)
  /\ UNCHANGED <<hostData, viewVars>>

ShellValidate ==
  /\ op = "idle"
  /\ op' = "shellValidateHostContext"
  /\ out' = shellValidateHostContext(hostData)
  /\ UNCHANGED <<hostData, viewVars>>

Generate ==
  /\ op = "idle"
  /\ \E name \in Schemas :
       /\ op' = "generateTestCases"
       /\ out' = [schema |-> name,
                  tests |-> generateTestCases(SchemaNamed(name), <<>>, FALSE)]
  /\ UNCHANGED <<hostData, viewVars>>

RunTestCase ==
  /\ op = "idle"
  /\ \E i \in 1..Len(hostContextTests) :
       /\ op' = "runTestCase"
       /\ out' = [testCase |-> hostContextTests[i],
                  result |-> runTestCase(hostContextTests[i], hostData)]
  /\ UNCHANGED <<hostData, viewVars>>

FindUnexpected ==
  /\ op = "idle"
  /\ op' = "findUnexpectedProperties"
  /\ out' = findUnexpectedProperties(hostData, hostContextSchema, <<>>)
  /\ UNCHANGED <<hostData, viewVars>>

\* the scores a suite can end with, and one below the scale
Percentages == (0 - MaxNum)..MaxPercentage

GradeScore ==
  /\ op = "idle"
  /\ \E percentage \in Percentages :
       /\ op' = "getGrade"
       /\ out' = [percentage |-> percentage, grade |-> getGrade(percentage)]
  /\ UNCHANGED <<hostData, viewVars>>

\* the path of a row of the host data display, or one no walk produced
ClassifyPaths(validationResult) ==
  LET listed == validationResult.missing \o validationResult.unexpected
                  \o validationResult.valid
  IN {listed[i] : i \in 1..Len(listed)}
     \cup {validationResult.unexpected[i] \o <<Dot, "never">> :
             i \in 1..Len(validationResult.unexpected)}
     \cup {<<"never">>}

\* a row of the display is classified against the finished validation
Classify ==
  /\ op = "validateHostContext"
  /\ ~out.threw
  /\ \E path \in ClassifyPaths(out) :
       /\ op' = "getPathValidationStatus"
       /\ out' = [path |-> path,
                  validationResult |-> out,
                  status |-> getPathValidationStatus(path, out)]
  /\ UNCHANGED <<hostData, viewVars>>

\* the caller consumes the result
Return ==
  /\ op # "idle"
  /\ op' = "idle"
  /\ out' = Idle
  /\ UNCHANGED <<hostData, viewVars>>

Next ==
  \/ Validate \/ ShellValidate \/ Generate \/ RunTestCase
  \/ Classify \/ FindUnexpected \/ GradeScore
  \/ Return

Spec == Init /\ [][Next]_vars

----------------------------------------------------------------------------
(* The exchange with the host: the view sends requests, and the host's     *)
(* messages arrive one at a time; a handler and the promise reactions it   *)
(* queues run to completion before the next message is handled.           *)

\* ids a message of the host may carry
IdValues == {Num(1), Num(2)}

\* results of a response
ResultValues ==
  { Obj(<<>>),
    Obj(<<E("protocolVersion", Text(MCP_APPS_SPEC_VERSION)),
          E("appInfo", Obj(<<E("name", Text("host"))>>)),
          E("hostContext", Obj(<<E("theme", Text("dark"))>>))>>) }

\* a JSON-RPC error object
ErrorValue ==
  Obj(<<E("code", Num(0 - MaxNum)), E("message", Text("failed"))>>)

Responses ==
  { Obj(<<E("jsonrpc", Text("2.0")), E("id", id), E("result", result)>>) :
      id \in IdValues, result \in ResultValues }
  \cup { Obj(<<E("jsonrpc", Text("2.0")), E("id", id),
               E("error", ErrorValue)>>) : id \in IdValues }
  \cup { Obj(<<E("jsonrpc", Text("2.0")), E("id", id)>>) : id \in IdValues }
  \cup { Obj(<<E("jsonrpc", Text("2.0")), E("id", Text("1")),
               E("result", Obj(<<>>))>>) }

Teardowns ==
  { Obj(<<E("jsonrpc", Text("2.0")),
          E("method", Text("ui/resource-teardown"))>>) }
  \cup { Obj(<<E("jsonrpc", Text("2.0")), E("id", id),
               E("method", Text("ui/resource-teardown"))>>) :
           id \in IdValues \cup {Text("1")} }

Notifications ==
  { Obj(<<E("jsonrpc", Text("2.0")), E("method", Text(method)),
          E("params", Obj(<<E("theme", Text("light"))>>))>>) :
      method \in
        { "ui/notifications/host-context-changed",
          "ui/notifications/tool-input", "ui/notifications/tool-result",
          "ui/notifications/tool-input-partial",
          "ui/notifications/tool-cancelled", "ui/notifications/unknown" } }
  \cup { Obj(<<E("jsonrpc", Text("2.0")),
               E("method", Text("ui/notifications/host-context-changed"))>>) }

\* what is no JSON-RPC 2.0 message
OtherData ==
  { Null, Text("2.0"), Arr(<<>>),
    Obj(<<E("jsonrpc", Text("1.0")), E("id", Num(1)),
          E("result", Obj(<<>>))>>) }

Messages == Responses \cup Teardowns \cup Notifications \cup OtherData

\* document.body.scrollHeight when a size is reported
Heights(data) ==
  IF Get(data, K("method")) = Text("ui/notifications/tool-result")
    THEN {Num(0), Num(MaxNum)}
  ELSE {Num(0)}

\* the view's state as a step finds it
View ==
  [requestId |-> requestId,
   pendingRequests |-> pendingRequests,
   currentHostInfo |-> currentHostInfo,
   currentToolData |-> currentToolData,
   isReady |-> isReady,
   messageLog |-> messageLog,
   posted |-> <<>>,
   settled |-> <<>>,
   completed |-> <<>>]

\* a step is taken while it leaves the log within the bound
Within(v) == Len(v.messageLog) <= MaxLog

\* the step named name, given data, leaves the view as v
Becomes(v, name, data) ==
  /\ requestId' = v.requestId
  /\ pendingRequests' = v.pendingRequests
  /\ currentHostInfo' = v.currentHostInfo
  /\ currentToolData' = v.currentToolData
  /\ isReady' = v.isReady
  /\ messageLog' = v.messageLog
  /\ op' = name
  /\ out' = [data |-> data, posted |-> v.posted, settled |-> v.settled,
             completed |-> v.completed]

ViewInit ==
  /\ hostData = Undefined
  /\ op = "idle"
  /\ out = Idle
  /\ ViewStarts

Initialize ==
  /\ Within(initialize(View))
  /\ Becomes(initialize(View), "initialize", Undefined)
  /\ UNCHANGED hostData

NavigateToInspector ==
  /\ \E toolName \in {"inspect-host-info"} :
       /\ Within(navigateToInspector(View, toolName))
       /\ Becomes(navigateToInspector(View, toolName),
                  "navigateToInspector", Text(toolName))
  /\ UNCHANGED hostData

HandleMessage ==
  /\ \E data \in Messages :
       \E height \in Heights(data) :
         /\ Within(handleMessage(View, data, height))
         /\ Becomes(handleMessage(View, data, height), "handleMessage", data)
  /\ UNCHANGED hostData

ViewNext == Initialize \/ NavigateToInspector \/ HandleMessage

ViewSpec == ViewInit /\ [][ViewNext]_vars

----------------------------------------------------------------------------
(* A session: the view initializes, more than once if its script does, and *)
(* the host answers and reports changes of its context.  The messages are  *)
(* few, so that the log may grow longer than under ViewSpec.               *)

MaxSessionLog == 5

SessionMessages ==
  { Obj(<<E("jsonrpc", Text("2.0")), E("id", id), E("result", result)>>) :
      id \in IdValues,
      result \in
        { Obj(<<E("protocolVersion", Text(MCP_APPS_SPEC_VERSION))>>),
          Obj(<<E("hostContext", Obj(<<E("theme", Text("dark")),
                                       E("locale", Text("en"))>>))>>) } }
  \cup { Obj(<<E("jsonrpc", Text("2.0")), E("id", id),
               E("error", ErrorValue)>>) : id \in IdValues }
  \cup { Obj(<<E("jsonrpc", Text("2.0")),
               E("method", Text("ui/notifications/host-context-changed")),
               E("params", params)>>) :
           params \in
             { Obj(<<E("theme", Text("light"))>>),
               Obj(<<E("locale", Text("fr")),
                     E("displayMode", Text("inline"))>>),
               Obj(<<E("displayMode", Str(<<"full", " ", "screen">>))>>) } }

SessionInitialize ==
  /\ Len(initialize(View).messageLog) <= MaxSessionLog
  /\ Becomes(initialize(View), "initialize", Undefined)
  /\ UNCHANGED hostData

SessionHandleMessage ==
  /\ \E data \in SessionMessages :
       /\ Len(handleMessage(View, data, Num(0)).messageLog) <= MaxSessionLog
       /\ Becomes(handleMessage(View, data, Num(0)), "handleMessage", data)
  /\ UNCHANGED hostData

SessionNext == SessionInitialize \/ SessionHandleMessage

SessionSpec == ViewInit /\ [][SessionNext]_vars

----------------------------------------------------------------------------
(* A long run: the script asks for one tool after another, each by its own  *)
(* name, while the host stays silent; once the log is within two entries   *)
(* of its limit the view may also initialize, and the host may answer the  *)
(* latest request, with a result or an error, and send a first tool input. *)

MaxRequestId == 99

LogNavigate ==
  /\ requestId <= MaxRequestId
  /\ Becomes(navigateToInspector(View, ToString(requestId)),
             "navigateToInspector", Text(ToString(requestId)))
  /\ UNCHANGED hostData

LogInitialize ==
  /\ requestId <= MaxRequestId
  /\ Len(messageLog) >= MAX_MESSAGES - 2
  /\ Becomes(initialize(View), "initialize", Undefined)
  /\ UNCHANGED hostData

LogHandleMessage ==
  /\ Len(messageLog) >= MAX_MESSAGES - 2
  /\ \E data \in
         { Obj(<<E("jsonrpc", Text("2.0")), E("id", Num(requestId - 1)),
                 E("result", Obj(<<E("hostContext", Obj(<<>>))>>))>>),
           Obj(<<E("jsonrpc", Text("2.0")), E("id", Num(requestId - 1)),
                 E("error", ErrorValue)>>) }
         \cup (IF Get(currentToolData, K("toolInput")) = Null
                 THEN { Obj(<<E("jsonrpc", Text("2.0")),
                              E("method", Text("ui/notifications/tool-input")),
                              E("params", Obj(<<>>))>>) }
               ELSE {}) :
       Becomes(handleMessage(View, data, Num(0)), "handleMessage", data)
  /\ UNCHANGED hostData

LogNext == LogNavigate \/ LogInitialize \/ LogHandleMessage

LogSpec == ViewInit /\ [][LogNext]_vars

----------------------------------------------------------------------------
(* What the claims speak about, stated on the data itself.                 *)

Validated == op \in {"validateHostContext", "shellValidateHostContext"}
Ran == op = "runTestCase"
Generated == op = "generateTestCases"

\* the schema the finished validation walked
SchemaOfOp ==
  IF op = "shellValidateHostContext" THEN shellHostContextSchema
  ELSE hostContextSchema

\* where the keys lead in the data: to a value ("found"), to a missing key
\* of an object ("absent"), below null or undefined ("nullish"), or below a
\* string, number or boolean ("primitive")
RECURSIVE Reach(_, _, _)
Reach(x, keys, i) ==
  IF i > Len(keys) THEN [kind |-> "found", value |-> x]
  ELSE IF x.t \in {"null", "undefined"}
    THEN [kind |-> "nullish", value |-> Undefined]
  ELSE IF x.t \in {"string", "number", "boolean"}
    THEN [kind |-> "primitive", value |-> Undefined]
  ELSE IF \E j \in 1..Len(x.kids) : x.kids[j].k = keys[i]
    THEN Reach(x.kids[CHOOSE j \in 1..Len(x.kids) : x.kids[j].k = keys[i]].v,
               keys, i + 1)
  ELSE [kind |-> "absent", value |-> Undefined]

\* the lookup of the finished runTestCase call, on the data
Looked == Reach(hostData, Split(out.testCase.path), 1)

Statuses == {"provided", "missing", "invalid", "warn"}

ExpectedNames(testCase) ==
  {testCase.expectedType.names[i] :
     i \in 1..Len(testCase.expectedType.names)}

EnumStrings(testCase) ==
  {Str(<<testCase.enumValues.v[i]>>) : i \in 1..Len(testCase.enumValues.v)}

Contains(text, piece) ==
  \E i \in 0..(Len(text) - Len(piece)) :
    SubSeq(text, i + 1, i + Len(piece)) = piece

Elems(seq) == {seq[i] : i \in 1..Len(seq)}
NoDuplicates(seq) ==
  \A i, j \in 1..Len(seq) : seq[i] = seq[j] => i = j

Path(keys) == Join(keys, Dot)

----------------------------------------------------------------------------
(* C1: runTestCase never throws and always returns one of the four         *)
(* statuses, for every generated descriptor and every host data; stated    *)
(* here for host data that is an object, which covers the case of a path   *)
(* segment that holds a string, a number or a boolean.                     *)
C1_RunNeverThrows ==
  (Ran /\ hostData.t = "object") =>
    (~out.result.threw /\ out.result.status \in Statuses)

----------------------------------------------------------------------------
(* C2: validateHostContext({hostContext: {}}) puts the path of every       *)
(* required leaf of the schema in missing and no leaf path in valid or in  *)
(* unexpected.  A leaf is required when neither it nor an ancestor is      *)
(* marked optional (the optional field of its descriptor is FALSE).        *)

EmptyContext == Wrap(Obj(<<>>))

LeafPaths(schema) ==
  {generateTestCases(schema, <<>>, FALSE)[i].path :
     i \in 1..Len(generateTestCases(schema, <<>>, FALSE))}

RequiredLeafPaths(schema) ==
  {generateTestCases(schema, <<>>, FALSE)[i].path :
     i \in {j \in 1..Len(generateTestCases(schema, <<>>, FALSE)) :
              ~generateTestCases(schema, <<>>, FALSE)[j].optional}}

C2_RequiredLeavesMissing ==
  (Validated /\ hostData = EmptyContext) =>
    /\ ~out.threw
    /\ RequiredLeafPaths(SchemaOfOp) \subseteq Elems(out.missing)
    /\ LeafPaths(SchemaOfOp) \cap Elems(out.valid) = {}
    /\ LeafPaths(SchemaOfOp) \cap Elems(out.unexpected) = {}

\* the paths of the direct children of hostContext, in schema order
TopLevelPaths(schema) ==
  [i \in 1..Len(schema[1].node.children.v) |->
     <<"hostContext", Dot>> \o schema[1].node.children.v[i].k]

IsPrefix(p, q) == Len(p) <= Len(q) /\ SubSeq(q, 1, Len(p)) = p

(* C2 as amended: for {hostContext: {}} missing holds exactly the paths of *)
(* the direct children of hostContext, in schema order, whether optional   *)
(* or not; so every leaf of the schema is in missing itself when it is a   *)
(* direct child of hostContext and is otherwise covered by its ancestor    *)
(* that is one; valid holds only hostContext, unexpected nothing.          *)
C2_TopLevelMissing ==
  (Validated /\ hostData = EmptyContext) =>
    /\ ~out.threw
    /\ out.missing = TopLevelPaths(SchemaOfOp)
    /\ \A leaf \in LeafPaths(SchemaOfOp) :
         \E m \in Elems(out.missing) :
           m = leaf \/ IsPrefix(m \o <<Dot>>, leaf)
    /\ out.valid = <<K("hostContext")>>
    /\ out.unexpected = <<>>

C2_Witness ==
  /\ op = "shellValidateHostContext"
  /\ hostData = EmptyContext
  /\ Path(<<"hostContext", "toolInfo">>) \in Elems(out.missing)
  /\ Path(<<"hostContext", "toolInfo", "id">>)
       \in RequiredLeafPaths(shellHostContextSchema)
  /\ Path(<<"hostContext", "toolInfo", "id">>)
       \notin Elems(out.missing)

----------------------------------------------------------------------------
(* C3: in every result of validateHostContext no path occurs twice in      *)
(* missing, in unexpected or in valid, and no path occurs in two of the    *)
(* lists, whatever strings the keys of the data are.                       *)
C3_PathsUnique ==
  (Validated /\ ~out.threw) =>
    /\ NoDuplicates(out.missing)
    /\ NoDuplicates(out.unexpected)
    /\ NoDuplicates(out.valid)
    /\ Elems(out.missing) \cap Elems(out.unexpected) = {}
    /\ Elems(out.missing) \cap Elems(out.valid) = {}
    /\ Elems(out.unexpected) \cap Elems(out.valid) = {}

----------------------------------------------------------------------------
(* C4: a generated descriptor is optional exactly when the leaf or one of  *)
(* its ancestors in the schema is marked optional.                         *)

\* some node on the way from the root of the schema along keys[i..] is
\* marked optional
RECURSIVE MarkedOnPath(_, _, _)
MarkedOnPath(schema, keys, i) ==
  \/ SchemaGet(schema, keys[i]).optional
  \/ /\ i < Len(keys)
     /\ MarkedOnPath(SchemaGet(schema, keys[i]).children.v, keys, i + 1)

C4_OptionalIsInherited ==
  Generated =>
    \A i \in 1..Len(out.tests) :
      out.tests[i].optional =
        MarkedOnPath(SchemaNamed(out.schema), Split(out.tests[i].path), 1)

\* a leaf declared without the flag that inherits it from toolInfo
C4_Witness ==
  /\ Generated
  /\ out.schema = "runner"
  /\ \E i \in 1..Len(out.tests) :
       /\ out.tests[i].path =
            Path(<<"hostContext", "toolInfo", "tool", "name">>)
       /\ out.tests[i].optional

----------------------------------------------------------------------------
(* C5: runTestCase returns missing, "Not provided" and actualType          *)
(* "undefined" whenever the path is absent from the data at any segment or *)
(* an intermediate value is null or undefined; stated for host data that   *)
(* is an object.                                                           *)
C5_AbsentIsMissing ==
  (Ran /\ hostData.t = "object" /\ Looked.kind # "found") =>
    /\ ~out.result.threw
    /\ out.result.status = "missing"
    /\ out.result.message = <<"Not provided">>
    /\ out.result.actualType = "undefined"

----------------------------------------------------------------------------
(* C6: runTestCase returns provided with message "OK" for every value      *)
(* found at the path whose runtime type is one of the expected types and   *)
(* which is one of the enum values when the descriptor has any.            *)
C6_MatchIsProvided ==
  ( /\ Ran
    /\ Looked.kind = "found"
    /\ Looked.value.t \in ExpectedNames(out.testCase)
    /\ (out.testCase.enumValues.has =>
          Looked.value \in EnumStrings(out.testCase)) ) =>
    /\ ~out.result.threw
    /\ out.result.status = "provided"
    /\ out.result.message = <<"OK">>

\* a number where the schema allows a string or a number
C6_Witness ==
  /\ Ran
  /\ out.testCase.path = Path(<<"hostContext", "toolInfo", "id">>)
  /\ Looked.kind = "found"
  /\ Looked.value.t = "number"
  /\ out.result.status = "provided"

----------------------------------------------------------------------------
(* C7: a value found at the path whose runtime type is not among the       *)
(* expected types gives invalid, with actualType that runtime type and     *)
(* actualValue the value, whether or not the descriptor has enum values.   *)
C7_WrongTypeIsInvalid ==
  ( /\ Ran
    /\ Looked.kind = "found"
    /\ Looked.value.t \notin ExpectedNames(out.testCase) ) =>
    /\ ~out.result.threw
    /\ out.result.status = "invalid"
    /\ out.result.actualType = Looked.value.t
    /\ out.result.actualValue = Looked.value

\* displayMode 3 against type string with an enum
C7_Witness ==
  /\ Ran
  /\ out.testCase.path = Path(<<"hostContext", "displayMode">>)
  /\ out.testCase.enumValues.has
  /\ Looked.kind = "found"
  /\ Looked.value = Num(3)
  /\ out.result.status = "invalid"
  /\ out.result.actualType = "number"

----------------------------------------------------------------------------
(* C8: a value found at the path whose type matches but which is not one   *)
(* of the descriptor's enum values gives warn, with actualType the value's *)
(* type and a message that contains the value and the enum values.         *)
C8_EnumDriftIsWarn ==
  ( /\ Ran
    /\ Looked.kind = "found"
    /\ Looked.value.t \in ExpectedNames(out.testCase)
    /\ out.testCase.enumValues.has
    /\ Looked.value \notin EnumStrings(out.testCase) ) =>
    /\ ~out.result.threw
    /\ out.result.status = "warn"
    /\ out.result.actualType = Looked.value.t
    /\ out.result.actualValue = Looked.value
    /\ Contains(out.result.message, ToStringJS(Looked.value))
    /\ \A i \in 1..Len(out.testCase.enumValues.v) :
         Contains(out.result.message, <<out.testCase.enumValues.v[i]>>)

\* theme "solarized" against the enum [light, dark]
C8_Witness ==
  /\ Ran
  /\ out.testCase.path = Path(<<"hostContext", "theme">>)
  /\ Looked.kind = "found"
  /\ Looked.value = Str(<<"solarized">>)
  /\ out.result.status = "warn"
  /\ out.result.actualType = "string"
  /\ Contains(out.result.message, <<"solarized">>)
  /\ Contains(out.result.message, <<"light", ", ", "dark">>)

----------------------------------------------------------------------------
(* C9: for every data object that matches the schema's required shape      *)
(* exactly and has no keys beyond those the schema declares,               *)
(* validateHostContext returns unexpected = [] and missing = [].           *)

\* x has only keys the schema declares, at every level the schema describes
RECURSIVE OnlyDeclaredKeys(_, _)
OnlyDeclaredKeys(x, schema) ==
  \A j \in 1..Len(x.kids) :
    /\ SchemaHas(schema, x.kids[j].k)
    /\ SchemaGet(schema, x.kids[j].k).children.has =>
         /\ x.kids[j].v.t = "object"
         /\ OnlyDeclaredKeys(x.kids[j].v,
                             SchemaGet(schema, x.kids[j].k).children.v)

\* x has every key the schema does not mark optional, in every object that
\* is present
RECURSIVE HasRequiredKeys(_, _)
HasRequiredKeys(x, schema) ==
  \A i \in 1..Len(schema) :
    LET found == Reach(x, <<schema[i].k>>, 1)
    IN /\ ~schema[i].node.optional =>
            (found.kind = "found" /\ found.value.t # "null")
       /\ (found.kind = "found" /\ schema[i].node.children.has
             /\ found.value.t = "object") =>
            HasRequiredKeys(found.value, schema[i].node.children.v)

\* x has every key the schema declares, optional or not, with a value that
\* is not null
RECURSIVE HasAllKeys(_, _)
HasAllKeys(x, schema) ==
  \A i \in 1..Len(schema) :
    LET found == Reach(x, <<schema[i].k>>, 1)
    IN /\ found.kind = "found"
       /\ found.value.t # "null"
       /\ schema[i].node.children.has =>
            /\ found.value.t = "object"
            /\ HasAllKeys(found.value, schema[i].node.children.v)

C9_RequiredShapeIsClean ==
  ( /\ op = "validateHostContext"
    /\ hostData.t = "object"
    /\ OnlyDeclaredKeys(hostData, hostContextSchema)
    /\ HasRequiredKeys(hostData, hostContextSchema) ) =>
    (~out.threw /\ out.unexpected = <<>> /\ out.missing = <<>>)

(* C9 as amended: for every data object that has every key the schema      *)
(* declares, the optional ones included, with a value that is not null (a  *)
(* plain object where the schema declares children) and no keys beyond     *)
(* those the schema declares, validateHostContext returns unexpected = []  *)
(* and missing = [].                                                       *)
C9_CompleteShapeIsClean ==
  ( /\ op = "validateHostContext"
    /\ hostData.t = "object"
    /\ OnlyDeclaredKeys(hostData, hostContextSchema)
    /\ HasAllKeys(hostData, hostContextSchema) ) =>
    (~out.threw /\ out.unexpected = <<>> /\ out.missing = <<>>)

\* the complete data, whose numbers are 0 and whose booleans are false
C9_Witness ==
  /\ op = "validateHostContext"
  /\ hostData = FullData
  /\ OnlyDeclaredKeys(hostData, hostContextSchema)
  /\ HasAllKeys(hostData, hostContextSchema)
  /\ Len(out.valid) > Len(hostContextTests)
  /\ out.missing = <<>>

----------------------------------------------------------------------------
(* C10: validateHostContext returns three empty lists and does not throw   *)
(* when data is absent, is not an object or has no hostContext, and does   *)
(* not throw for any other JSON-compatible data.                           *)
C10_ValidateNeverThrows ==
  Validated =>
    /\ ~out.threw
    /\ (hostData.t # "object" \/ ~HasOwn(hostData, K("hostContext"))) =>
         (out.missing = <<>> /\ out.unexpected = <<>> /\ out.valid = <<>>)

----------------------------------------------------------------------------
(* Classification of paths (getPathValidationStatus).                      *)

Classified == op = "getPathValidationStatus"

\* C11 as stated: every path that begins with an entry of
\* validationResult.unexpected followed by a dot is classified unexpected,
\* whether or not a walk ever listed the path.
C11_BelowUnexpectedIsUnexpected ==
  Classified /\ IsChildOfUnexpected(out.path, out.validationResult)
    => out.status = "unexpected"

\* C11: a path that begins with an entry of validationResult.unexpected
\* followed by a dot, and is not itself listed in validationResult.missing,
\* is classified unexpected, whether or not a walk ever listed the path.
C11_BelowUnexpectedUnlessMissing ==
  Classified /\ IsChildOfUnexpected(out.path, out.validationResult)
             /\ out.path \notin Elems(out.validationResult.missing)
    => out.status = "unexpected"

\* a path below an unexpected entry that no list of the result holds
C11_Witness ==
  /\ Classified
  /\ IsChildOfUnexpected(out.path, out.validationResult)
  /\ out.path \notin Elems(out.validationResult.missing)
                       \cup Elems(out.validationResult.unexpected)
                       \cup Elems(out.validationResult.valid)
  /\ out.status = "unexpected"

\* C12: the classification follows a fixed order: a path listed in missing
\* is missing even when unexpected lists it too; otherwise a path listed in
\* unexpected, or beginning with an entry of unexpected and a dot, is
\* unexpected; every other path is valid, listed in valid or not.
C12_FixedOrder ==
  Classified =>
    LET missing == Elems(out.validationResult.missing)
        unexpected == Elems(out.validationResult.unexpected)
        below == \E u \in unexpected :
                   /\ Len(out.path) > Len(u)
                   /\ \A i \in 1..Len(u) : out.path[i] = u[i]
                   /\ out.path[Len(u) + 1] = Dot
    IN out.status = IF out.path \in missing THEN "missing"
                    ELSE IF out.path \in unexpected \/ below THEN "unexpected"
                    ELSE "valid"

\* a path that both lists hold, classified missing
C12_Witness ==
  /\ Classified
  /\ out.path \in Elems(out.validationResult.missing)
  /\ out.path \in Elems(out.validationResult.unexpected)
  /\ out.status = "missing"

----------------------------------------------------------------------------
(* The shape of the generated suite (generateTestCases).                   *)

\* the dot-path of a list of keys
RECURSIVE KeyPath(_)
KeyPath(keys) ==
  IF Len(keys) = 1 THEN keys[1]
  ELSE keys[1] \o <<Dot>> \o KeyPath(Tail(keys))

\* the schema node the keys lead to
RECURSIVE NodeAt(_, _, _)
NodeAt(schema, keys, i) ==
  IF i = Len(keys) THEN SchemaGet(schema, keys[i])
  ELSE NodeAt(SchemaGet(schema, keys[i]).children.v, keys, i + 1)

\* the nodes without children, depth-first in schema key order
SchemaLeaves(schema) ==
  SelectSeq(SchemaKeyPaths(schema, <<>>, 1),
            LAMBDA keys : ~NodeAt(schema, keys, 1).children.has)

\* C14: generateTestCases emits exactly one descriptor for each schema node
\* without children and none for a node with children, depth-first in
\* schema key order and with pairwise distinct paths; a descriptor carries
\* its node's type and enum (or none), and as parentPath the dot-path of
\* the node's immediate parent, or none for a leaf at the root.
C14_OneDescriptorPerLeaf ==
  Generated =>
    LET schema == SchemaNamed(out.schema)
        leaves == SchemaLeaves(schema)
    IN /\ Len(out.tests) = Len(leaves)
       /\ NoDuplicates([i \in 1..Len(out.tests) |-> out.tests[i].path])
       /\ \A i \in 1..Len(leaves) :
            LET keys == leaves[i]
                node == NodeAt(schema, keys, 1)
                test == out.tests[i]
            IN /\ test.path = KeyPath(keys)
               /\ test.expectedType = node.type
               /\ test.enumValues = node.enum
               /\ test.parentPath =
                    IF Len(keys) = 1 THEN None
                    ELSE Some(KeyPath(SubSeq(keys, 1, Len(keys) - 1)))

\* a suite with a leaf at the root, a nested leaf and a skipped parent
C14_Witness ==
  /\ Generated
  /\ out.schema = "children"
  /\ \E i, j \in 1..Len(out.tests) :
       /\ i < j
       /\ out.tests[i].path = Path(<<"toolInfo", "tool", "name">>)
       /\ out.tests[i].parentPath = Some(Path(<<"toolInfo", "tool">>))
       /\ out.tests[j].path = K("theme")
       /\ ~out.tests[j].parentPath.has
       /\ out.tests[j].enumValues.has
  /\ \A i \in 1..Len(out.tests) :
       out.tests[i].path # Path(<<"toolInfo", "tool">>)

----------------------------------------------------------------------------
(* The finder of unknown properties (findUnexpectedProperties).            *)

Found == op = "findUnexpectedProperties"

\* every key below an object, at every depth, parents before descendants
RECURSIVE AllBelow(_, _, _)
AllBelow(x, path, i) ==
  IF i > Len(x.kids) THEN <<>>
  ELSE LET fullPath == path \o <<Dot>> \o x.kids[i].k
       IN <<[path |-> fullPath, value |-> x.kids[i].v]>>
          \o (IF x.kids[i].v.t = "object"
                THEN AllBelow(x.kids[i].v, fullPath, 1) ELSE <<>>)
          \o AllBelow(x, path, i + 1)

\* the data keys the schema does not declare at their level, with all that
\* lies below them
RECURSIVE Undeclared(_, _, _, _)
Undeclared(x, schema, prefix, i) ==
  IF i > Len(x.kids) THEN <<>>
  ELSE LET key == x.kids[i].k
           value == x.kids[i].v
           fullPath == IF prefix = <<>> THEN key ELSE prefix \o <<Dot>> \o key
       IN (IF ~SchemaHas(schema, key)
             THEN <<[path |-> fullPath, value |-> value]>>
                  \o (IF value.t = "object"
                        THEN AllBelow(value, fullPath, 1) ELSE <<>>)
           ELSE IF SchemaGet(schema, key).children.has /\ value.t = "object"
             THEN Undeclared(value, SchemaGet(schema, key).children.v,
                             fullPath, 1)
           ELSE <<>>)
          \o Undeclared(x, schema, prefix, i + 1)

\* the type a value has at run time
RuntimeType(value) == value.t

\* the entries of seq are entries of found, in the same order
RECURSIVE IsSubsequence(_, _, _, _)
IsSubsequence(seq, i, found, j) ==
  IF i > Len(seq) THEN TRUE
  ELSE IF j > Len(found) THEN FALSE
  ELSE IF found[j] = seq[i] THEN IsSubsequence(seq, i + 1, found, j + 1)
  ELSE IsSubsequence(seq, i, found, j + 1)

\* C15: for every data key that the schema does not declare at its level,
\* findUnexpectedProperties returns an entry with the key's path, value and
\* run-time type and, when the value is an object that is no array, an
\* entry for every key below it at every depth, a parent's entry before its
\* descendants' (foo: {bar: 1} at the top yields foo and foo.bar).
C15_UndeclaredKeysAreFound ==
  (Found /\ hostData.t = "object") =>
    /\ ~out.threw
    /\ LET undeclared == Undeclared(hostData, hostContextSchema, <<>>, 1)
       IN IsSubsequence(
            [i \in 1..Len(undeclared) |->
               [path |-> undeclared[i].path, value |-> undeclared[i].value,
                type |-> RuntimeType(undeclared[i].value)]],
            1, out.unexpected, 1)

----------------------------------------------------------------------------
(* The grading of a score (getGrade).                                      *)

Graded == op = "getGrade"

\* how good a letter is
Rank(letter) ==
  CASE letter = "A" -> 4 [] letter = "B" -> 3 [] letter = "C" -> 2
    [] letter = "D" -> 1 [] OTHER -> 0

\* C16: getGrade gives every percentage exactly one bucket: A and pass from
\* 90 on, B and pass from 80 on, C and warn from 70 on, D and warn from 60
\* on, F and fail below; so 85 is B/pass, 65 is D/warn and 40 is F/fail,
\* and the grade never gets worse as the percentage grows.
C16_GradeBuckets ==
  Graded =>
    LET p == out.percentage
        g == out.grade
    IN /\ g.letter \in {"A", "B", "C", "D", "F"}
       /\ (g.letter = "A") = (p >= 90)
       /\ (g.letter = "B") = (p >= 80 /\ p < 90)
       /\ (g.letter = "C") = (p >= 70 /\ p < 80)
       /\ (g.letter = "D") = (p >= 60 /\ p < 70)
       /\ (g.letter = "F") = (p < 60)
       /\ g.color = (IF g.letter \in {"A", "B"} THEN "pass"
                     ELSE IF g.letter \in {"C", "D"} THEN "warn" ELSE "fail")
       /\ (p = 85 => g = Grade("B", "pass"))
       /\ (p = 65 => g = Grade("D", "warn"))
       /\ (p = 40 => g = Grade("F", "fail"))
       /\ \A q \in Percentages :
            q >= p => Rank(getGrade(q).letter) >= Rank(g.letter)

\* the score 85, graded B and pass
C16_Witness ==
  /\ Graded
  /\ out.percentage = 85
  /\ out.grade = Grade("B", "pass")

----------------------------------------------------------------------------
(* The validator and the finder side by side.                              *)

\* the finder's answer for the hostContext of the validated data
FoundForContext ==
  findUnexpectedProperties(Wrap(HostContextOf(hostData)),
                           hostContextSchema, <<>>)

\* C17: for every data object, the set of paths in
\* validateHostContext(data).unexpected equals the set of paths returned by
\* findUnexpectedProperties({hostContext: data.hostContext},
\* hostContextSchema).
C17_FinderAgreesWithValidator ==
  (op = "validateHostContext" /\ hostData.t = "object" /\ ~out.threw) =>
    /\ ~FoundForContext.threw
    /\ Elems(out.unexpected) =
         {FoundForContext.unexpected[i].path :
            i \in 1..Len(FoundForContext.unexpected)}

----------------------------------------------------------------------------
(* A leaf that is present with the value null, seen by the validator and   *)
(* by the test runner.                                                     *)

\* the leaf paths of a schema whose key the data holds with the value null
NullLeaves(schema) ==
  {KeyPath(SchemaLeaves(schema)[i]) : i \in
     {j \in 1..Len(SchemaLeaves(schema)) :
        Reach(hostData, SchemaLeaves(schema)[j], 1) =
          [kind |-> "found", value |-> Null]}}

\* C18: for a schema leaf whose key is present in the host data with the
\* value null, validateHostContext records the leaf's path in missing,
\* whereas runTestCase does not return missing: its lookup succeeds, the
\* actualType is "null" and the status is invalid.
C18_NullLeaf ==
  /\ (Validated /\ hostData.t = "object") =>
       \A path \in NullLeaves(SchemaOfOp) :
         ~out.threw /\ path \in Elems(out.missing)
  /\ (Ran /\ hostData.t = "object" /\ Looked = [kind |-> "found", value |-> Null]) =>
       /\ ~out.result.threw
       /\ out.result.status = "invalid"
       /\ out.result.actualType = "null"

----------------------------------------------------------------------------
(* The exchange with the host (handleMessage, sendRequest).                *)

Handled == op = "handleMessage"
Sent == op \in {"initialize", "navigateToInspector"}

\* the handled message is a JSON-RPC 2.0 message naming ui/resource-teardown
IsTeardown(data) ==
  /\ data.t = "object"
  /\ Get(data, K("jsonrpc")) = Text("2.0")
  /\ Get(data, K("method")) = Text("ui/resource-teardown")

\* the response the host is owed for a teardown request
TeardownResponse(data) ==
  Obj(<<E("jsonrpc", Text("2.0")), E("id", Get(data, K("id"))),
        E("result", Obj(<<>>))>>)

\* C19: whenever the view handles a JSON-RPC 2.0 message with the method
\* ui/resource-teardown that carries an id, it posts exactly one message,
\* the response {jsonrpc: "2.0", id: the same id, result: {}}, whichever
\* requests of its own are pending, one with the same id included; for a
\* teardown message without an id it posts nothing.
C19_TeardownIsAnswered ==
  (Handled /\ IsTeardown(out.data)) =>
    out.posted = IF HasOwn(out.data, K("id"))
                   THEN <<TeardownResponse(out.data)>>
                 ELSE <<>>

\* the handled data is a JSON-RPC 2.0 message
IsJsonRpc(data) ==
  data.t = "object" /\ Get(data, K("jsonrpc")) = Text("2.0")

\* the pending request a message answers, if it answers one
Answers(data, pending) ==
  /\ IsJsonRpc(data)
  /\ HasOwn(data, K("id"))
  /\ Get(data, K("id")).t = "number"
  /\ Get(data, K("id")).n \in DOMAIN pending

----------------------------------------------------------------------------
(* The handshake and the host context the view keeps.                      *)

\* the positions, among the posted messages, of ui/notifications/initialized
Initialized(posted) ==
  {i \in 1..Len(posted) :
     Get(posted[i], K("method")) = Text("ui/notifications/initialized")}

\* the message answers a pending ui/initialize request of the view
AnswersInitialize(data, pending) ==
  /\ Answers(data, pending)
  /\ pending[Get(data, K("id")).n].method = "ui/initialize"

\* the hostContext kept for a result: its own, or {} when it has none
ContextOf(result) ==
  IF Truthy(Get(result, K("hostContext")))
    THEN Get(result, K("hostContext")) ELSE Obj(<<>>)

\* C21: the view posts ui/notifications/initialized only in the step that
\* handles a message without error answering a pending ui/initialize
\* request, with the host info of the result stored, and posts it once, the
\* request being pending no longer; initialize() itself posts only its
\* request; when the answer is an error, nothing is posted, currentHostInfo
\* keeps its value, and the promise of initialize() is fulfilled, not
\* rejected.
C21_InitializedAfterStoredResponse ==
  [][ /\ Sent' => Initialized(out'.posted) = {}
      /\ (Handled' /\ Initialized(out'.posted) # {}) =>
           /\ AnswersInitialize(out'.data, pendingRequests)
           /\ ~HasOwn(out'.data, K("error"))
           /\ Cardinality(Initialized(out'.posted)) = 1
           /\ Get(out'.data, K("id")).n \notin DOMAIN pendingRequests'
           /\ Truthy(currentHostInfo')
           /\ Get(currentHostInfo', K("hostContext")) =
                ContextOf(Get(out'.data, K("result")))
           /\ Get(currentHostInfo', K("protocolVersion")) =
                Get(Get(out'.data, K("result")), K("protocolVersion"))
      /\ (Handled' /\ AnswersInitialize(out'.data, pendingRequests)
            /\ Truthy(Get(out'.data, K("error")))) =>
           /\ out'.posted = <<>>
           /\ currentHostInfo' = currentHostInfo
           /\ out'.completed = <<[fn |-> "initialize", outcome |-> "fulfilled"]>>
    ]_vars

\* a second initialize is answered with an error after a first one was
\* answered with a result: the stored host info stays
C21_Witness ==
  /\ Handled
  /\ Truthy(Get(out.data, K("error")))
  /\ out.settled # <<>>
  /\ out.settled[1].method = "ui/initialize"
  /\ out.completed # <<>>
  /\ Truthy(currentHostInfo)
  /\ \E i \in 1..Len(messageLog) :
       messageLog[i].method = Str(<<"ui/notifications/initialized",
                                    " (notification)">>)

\* an object as the set of its keys with their values
Pairs(x) == {<<x.kids[i].k, x.kids[i].v>> : i \in 1..Len(x.kids)}

\* target overridden top-level key by key by params
Overridden(target, params) ==
  Pairs(params)
    \cup {pair \in Pairs(target) :
            \A other \in Pairs(params) : other[1] # pair[1]}

IsContextChange(data) ==
  /\ IsJsonRpc(data)
  /\ Get(data, K("method")) = Text("ui/notifications/host-context-changed")

\* C22: the hostContext the view keeps is set by the step that completes
\* an initialize to the hostContext of the result, or {} when it has none;
\* every host-context-changed notification handled from then on overrides
\* it top-level key by key with its params; no other step changes it, and
\* a notification handled before the view is initialized changes nothing.
C22_HostContextFollowsChanges ==
  [][ /\ Sent' => currentHostInfo' = currentHostInfo
      /\ Handled' =>
           IF Initialized(out'.posted) # {}
             THEN Get(currentHostInfo', K("hostContext")) =
                    ContextOf(Get(out'.data, K("result")))
           ELSE IF IsContextChange(out'.data) /\ Truthy(currentHostInfo)
             THEN Pairs(Get(currentHostInfo', K("hostContext"))) =
                    Overridden(Get(currentHostInfo, K("hostContext")),
                               Get(out'.data, K("params")))
           ELSE currentHostInfo' = currentHostInfo
    ]_vars

----------------------------------------------------------------------------
(* The validator on containers that hold no object, and on unknown keys.   *)

\* the schema paths of nodes with children whose key the data holds with a
\* value that is neither null nor a plain object
NonObjectContainers(schema) ==
  {keys \in Elems(SchemaKeyPaths(schema, <<>>, 1)) :
     /\ NodeAt(schema, keys, 1).children.has
     /\ Reach(hostData, keys, 1).kind = "found"
     /\ Reach(hostData, keys, 1).value.t \notin {"null", "undefined", "object"}}

\* the paths a validation result lists
Listed(result) ==
  Elems(result.missing) \cup Elems(result.valid) \cup Elems(result.unexpected)

\* C23: when a schema field that has children is present with a value that
\* is neither null nor a plain object (a primitive or an array),
\* validateHostContext records the field's path in valid, and lists none of
\* the paths below it as missing, valid or unexpected.
C23_NonObjectContainerIsValid ==
  (Validated /\ hostData.t = "object") =>
    \A keys \in NonObjectContainers(SchemaOfOp) :
      /\ ~out.threw
      /\ KeyPath(keys) \in Elems(out.valid)
      /\ \A path \in Listed(out) :
           ~StartsWith(path, KeyPath(keys) \o <<Dot>>)

\* the keys of the validated hostContext that the schema does not declare
\* at their level, with all that lies below them
UndeclaredInContext ==
  Undeclared(Wrap(HostContextOf(hostData)), SchemaOfOp, <<>>, 1)

\* C24: for a data key the schema does not declare at its level,
\* validateHostContext records the key's path in unexpected and, when the
\* value is an object that is no array, the path of every key below it at
\* every depth; it lists nothing below an array, and none of those paths
\* is in missing or valid.
C24_UnknownBranchIsUnexpected ==
  (Validated /\ hostData.t = "object") =>
    \A i \in 1..Len(UndeclaredInContext) :
      LET entry == UndeclaredInContext[i]
      IN /\ ~out.threw
         /\ entry.path \in Elems(out.unexpected)
         /\ entry.path \notin Elems(out.missing) \cup Elems(out.valid)
         /\ entry.value.t = "array" =>
              \A path \in Listed(out) :
                ~StartsWith(path, entry.path \o <<Dot>>)

----------------------------------------------------------------------------
(* The finder on keys the schema declares, and on data that is no object.  *)

\* C25: findUnexpectedProperties reports nothing for a data key the schema
\* declares, and looks below it, with the child schema, only when the node
\* has children and the value is an object that is no array: every entry
\* it returns is a key the schema does not declare at its level, or lies
\* below such a key; so nothing inside hostContext.toolInfo.tool.inputSchema,
\* a leaf of type object without children, is ever reported.
C25_DeclaredKeysAreNotReported ==
  (Found /\ hostData.t = "object") =>
    /\ \A i \in 1..Len(out.unexpected) :
         [path |-> out.unexpected[i].path, value |-> out.unexpected[i].value]
           \in Elems(Undeclared(hostData, hostContextSchema, <<>>, 1))
    /\ \A i \in 1..Len(out.unexpected) :
         ~StartsWith(out.unexpected[i].path,
                     Path(<<"hostContext", "toolInfo", "tool", "inputSchema">>)
                       \o <<Dot>>)

\* inputSchema holds a key of its own, in data with a key for every schema
\* node: nothing is reported
C25_Witness ==
  /\ Found
  /\ Reach(hostData, <<K("hostContext"), K("toolInfo"), K("tool"),
                       K("inputSchema"), K("zzz")>>, 1).kind = "found"
  /\ Reach(hostData, <<K("hostContext"), K("safeAreaInsets"), K("top")>>,
           1).kind = "found"
  /\ out = NoneFound

\* the schema paths of nodes with children whose key the data holds with a
\* value that is no plain object: null, a primitive or an array
HollowContainers ==
  {keys \in Elems(SchemaKeyPaths(hostContextSchema, <<>>, 1)) :
     /\ NodeAt(hostContextSchema, keys, 1).children.has
     /\ Reach(hostData, keys, 1).kind = "found"
     /\ Reach(hostData, keys, 1).value.t # "object"}

\* some object of the data has an own key named hasOwnProperty
ShadowsHasOwnProperty ==
  \E i \in 1..Len(AllBelow(hostData, <<>>, 1)) :
    LET path == AllBelow(hostData, <<>>, 1)[i].path
    IN path[Len(path)] = "hasOwnProperty"

\* C26: findUnexpectedProperties returns the empty list, and does not
\* throw, for data that is null, undefined, a primitive or an array; below
\* a schema key with children that holds such a value, null included, it
\* reports nothing, and whenever it throws the cause is a key named
\* hasOwnProperty in an object, not a value that is no object.
C26_NothingFoundInNonObjects ==
  Found =>
    /\ hostData.t # "object" => out = NoneFound
    /\ hostData.t = "object" =>
         \A keys \in HollowContainers :
           \A i \in 1..Len(out.unexpected) :
             /\ out.unexpected[i].path # KeyPath(keys)
             /\ ~StartsWith(out.unexpected[i].path, KeyPath(keys) \o <<Dot>>)
    /\ out.threw => hostData.t = "object" /\ ShadowsHasOwnProperty

\* the data is a non-empty array
C26_Witness ==
  /\ Found
  /\ hostData = Arr(<<Num(MaxNum)>>)
  /\ out = NoneFound

----------------------------------------------------------------------------
(* The unionGroups of containerDimensions.                                 *)

\* the schema with every unionGroups taken out
RECURSIVE WithoutUnionGroups(_)
WithoutUnionGroups(schema) ==
  [i \in 1..Len(schema) |->
     [k |-> schema[i].k,
      node |-> [schema[i].node EXCEPT
                  !.unionGroups = None,
                  !.children = IF @.has THEN Some(WithoutUnionGroups(@.v))
                               ELSE @]]]

\* the paths of the fields of containerDimensions
DimensionPaths ==
  {Path(<<"hostContext", "containerDimensions", field>>) :
     field \in {"height", "maxHeight", "width", "maxWidth"}}

\* C27: the unionGroups of containerDimensions have no effect on
\* validateHostContext: its result is the one validation gives against the
\* schema without unionGroups, and below containerDimensions it lists only
\* the four fields, each missing by itself when absent or null.
C27_UnionGroupsAreIgnored ==
  op = "validateHostContext" =>
    /\ out = validateWith(hostData, WithoutUnionGroups(hostContextSchema))
    /\ \A path \in Elems(out.missing) :
         StartsWith(path, Path(<<"hostContext", "containerDimensions">>)
                            \o <<Dot>>)
           => path \in DimensionPaths

\* containerDimensions is an object with neither height nor maxHeight nor
\* width nor maxWidth: the four fields are missing and it is valid itself
C27_Witness ==
  /\ op = "validateHostContext"
  /\ hostData = Wrap(Obj(<<E("containerDimensions", Obj(<<>>))>>))
  /\ DimensionPaths \subseteq Elems(out.missing)
  /\ Path(<<"hostContext", "containerDimensions">>) \in Elems(out.valid)
  /\ WithoutUnionGroups(hostContextSchema) # hostContextSchema

----------------------------------------------------------------------------
(* The optional flag of the generated suite.                               *)

\* the leaves the schema declares without an optional flag
UnflaggedLeaves ==
  { <<K("hostContext"), K("toolInfo"), K("tool"), K("name")>> }
  \cup { <<K("hostContext"), K("safeAreaInsets"), K(side)>> :
           side \in {"top", "right", "bottom", "left"} }

\* C28: every descriptor generateTestCases(hostContextSchema) returns has
\* optional = true, those of hostContext.toolInfo.tool.name and of
\* hostContext.safeAreaInsets.top, right, bottom and left included, which
\* the schema declares without the flag: every direct child of hostContext
\* is marked optional, and the flag is inherited.
C28_EveryDescriptorIsOptional ==
  (Generated /\ out.schema = "runner") =>
    /\ \A i \in 1..Len(out.tests) : out.tests[i].optional
    /\ \A keys \in UnflaggedLeaves :
         /\ ~NodeAt(hostContextSchema, keys, 1).optional
         /\ \E i \in 1..Len(out.tests) : out.tests[i].path = KeyPath(keys)
    /\ LET children == hostContextSchema[1].node.children.v
       IN \A i \in 1..Len(children) : children[i].node.optional

\* the suite is there, with the descriptor of a leaf declared without the
\* flag below a parent declared without it
C28_Witness ==
  /\ Generated
  /\ out.schema = "runner"
  /\ \E i \in 1..Len(out.tests) :
       /\ out.tests[i].path = Path(<<"hostContext", "toolInfo", "tool", "name">>)
       /\ out.tests[i].optional
  /\ ~NodeAt(hostContextSchema,
             <<K("hostContext"), K("toolInfo"), K("tool")>>, 1).optional

----------------------------------------------------------------------------
(* The message log (logMessage).                                           *)

\* what an entry of the log records
Entry(e) == [direction |-> e.direction, method |-> e.method,
             content |-> e.content]

\* direction and method of the entries the finished step had to log, in
\* order, read off the message handled and the messages posted
Logged(data, posted, pending) ==
  IF data = Undefined \/ Get(data, K("jsonrpc")) # Text("2.0")
    THEN [i \in 1..Len(posted) |->
            [direction |-> "sent",
             method |-> Str(Get(posted[i], K("method")).s
                              \o <<" (request)">>)]]
  ELSE IF Answers(data, pending)
    THEN << [direction |-> "received",
             method |-> Str(<<pending[Get(data, K("id")).n].method,
                              IF HasOwn(data, K("error"))
                                THEN " (error)" ELSE " (response)">>)] >>
         \o [i \in 1..Len(posted) |->
               [direction |-> "sent",
                method |-> Str(Get(posted[i], K("method")).s
                                 \o <<" (notification)">>)]]
  ELSE IF Truthy(Get(data, K("method")))
    THEN << [direction |-> "received", method |-> Get(data, K("method"))] >>
  ELSE <<>>

\* C29: the message log never holds more than 100 entries; a step that
\* logs entries appends them in logging order and, the log being full,
\* drops as many entries from the front, the oldest, as the log would
\* otherwise exceed 100 by, and no others, so that the log always holds the
\* most recently logged entries in logging order.
C29_LogKeepsLatest ==
  [][ LET logged == Logged(out'.data, out'.posted, pendingRequests)
          total == Len(messageLog) + Len(logged)
          drop == IF total > 100 THEN total - 100 ELSE 0
      IN /\ Len(messageLog') <= 100
         /\ Len(messageLog') = total - drop
         /\ \A i \in 1..Len(messageLog') :
              IF i + drop <= Len(messageLog)
                THEN Entry(messageLog'[i]) = Entry(messageLog[i + drop])
              ELSE [direction |-> messageLog'[i].direction,
                    method |-> messageLog'[i].method]
                     = logged[i + drop - Len(messageLog)]
    ]_vars

\* the response to an initialize and the notification that follows are
\* logged in one step into a full log, which has lost its first entries
C29_Witness ==
  /\ Handled
  /\ Initialized(out.posted) # {}
  /\ Len(messageLog) = 100
  /\ requestId >= 100
  /\ messageLog[99].method = Str(<<"ui/initialize", " (response)">>)
  /\ messageLog[100].method =
       Str(<<"ui/notifications/initialized", " (notification)">>)
  /\ messageLog[1].content # navigateToInspector(InitialView, "1").messageLog[1].content

=============================================================================
